---------------------------- MODULE Spec2Model ----------------------------
(***************************************************************************)
(* Traffic-light classification of wingedflyer (models/db.py) and the      *)
(* request handlers of its portals (controllers/).                         *)
(*                                                                         *)
(* The tables b2c_payment and b2c_communication are bags of rows: the      *)
(* classification functions never read a row's id, only the columns kept   *)
(* here.  A nullable column holds None (<<>>) or Some(v) (<<v>>).          *)
(* Dates are whole days; datetime.now() is the variable now.               *)
(* A Python call either returns or raises; exc names the exception.        *)
(*                                                                         *)
(* session is the web2py session of the one browser that makes the         *)
(* requests, db holds the other tables, response what the last request     *)
(* handler answered.                                                       *)
(***************************************************************************)
EXTENDS Integers, Sequences, FiniteSets, Bags, TLC

VARIABLES b2c, b2c_payment, b2c_communication, now, ret,
          session, db, response

vars == <<b2c, b2c_payment, b2c_communication, now, ret,
          session, db, response>>

\* what the classification functions never touch
portal == <<session, db, response>>

-----------------------------------------------------------------------------
(* Bounds of the model.                                                    *)

\* most rows of b2c_payment in SpecPayment
MaxPayments == 7
\* most rows of b2c_communication in SpecCommunication
MaxContacts == 6
\* most rows of b2c_communication in SpecProactivity
MaxMessages == 3
\* most rows of b2c_payment / b2c_communication in SpecStatus
MaxLedger == 5
MaxLog == 3
\* most rows of b2c_payment / b2c_communication in Spec
MaxStoredPayments == 4
MaxStoredComms == 2
\* the clock stops here
MaxNow == 91

-----------------------------------------------------------------------------
(* Values.                                                                 *)

None == <<>>
Some(v) == <<v>>
IsNone(x) == x = <<>>
Val(x) == x[1]

\* borrower ids that have a row in b2c
B2cIds == {1, 2}

-----------------------------------------------------------------------------
(* Helpers on bags and sets.                                               *)

RECURSIVE SumOver(_, _)
SumOver(f, S) ==
    IF S = {} THEN 0
    ELSE LET x == CHOOSE y \in S : TRUE
         IN  f[x] + SumOver(f, S \ {x})

\* db(query): the rows of table B among those of the set S
Where(B, S) == [r \in DOMAIN B \cap S |-> B[r]]

\* sum(1 for r in rows if ...), db(query).count(): how many rows of B are in S
CountIf(B, S) ==
    SumOver([r \in DOMAIN B |-> IF r \in S THEN B[r] ELSE 0], DOMAIN B)

\* select(orderby=~field, limitby=(0, n)): the n rows with the greatest
\* values of the field.  SQL leaves the order among equal values open, so
\* this is the set of the results the query may give.
SelectLatest(B, field, n) ==
    { T \in SubBag(B) :
        /\ BagCardinality(T) = (IF n <= BagCardinality(B) THEN n
                                ELSE BagCardinality(B))
        /\ \A r \in DOMAIN T : \A s \in DOMAIN (B (-) T) :
               r[field] >= s[field] }

-----------------------------------------------------------------------------
(* calculate_payment_score                                                 *)

PaymentWindow == 6
MinPayments == 3
PatternMinPayments == 4
VarianceThreshold == 4

\* db(db.b2c_payment.b2c_id == b2c_id).select(orderby=~due_date, limitby=(0, 6))
\* on the rows the transaction has in b2c_payment
last_payments_of(payment_rows, b2c_id) ==
    SelectLatest(Where(payment_rows,
                       {p \in DOMAIN payment_rows : p.b2c_id = b2c_id}),
                 "due_date", PaymentWindow)

last_payments(b2c_id) == last_payments_of(b2c_payment, b2c_id)

\* a variant of LowVariance: variance <= 4
LowVarianceOrEqual(delays) ==
    LET n == BagCardinality(delays)
        total == SumOver([d \in DOMAIN delays |-> delays[d] * Val(d.days_late)],
                         DOMAIN delays)
        sq == SumOver([d \in DOMAIN delays |->
                         delays[d] * (n * Val(d.days_late) - total)
                                   * (n * Val(d.days_late) - total)],
                      DOMAIN delays)
    IN  sq <= VarianceThreshold * n * n * n

\* variance < 4, with avg_delay = sum(delays)/len(delays) and
\* variance = sum((d - avg_delay)**2)/len(delays), both sides scaled by
\* len(delays)**3 to stay in the integers
LowVariance(delays) ==
    LET n == BagCardinality(delays)
        total == SumOver([d \in DOMAIN delays |-> delays[d] * Val(d.days_late)],
                         DOMAIN delays)
        sq == SumOver([d \in DOMAIN delays |->
                         delays[d] * (n * Val(d.days_late) - total)
                                   * (n * Val(d.days_late) - total)],
                      DOMAIN delays)
    IN  sq < VarianceThreshold * n * n * n

is_consistent_pattern(payments) ==
    IF BagCardinality(payments) >= PatternMinPayments
    THEN LET delays == Where(payments,
                             {p \in DOMAIN payments : ~IsNone(p.days_late)})
         IN  IF BagCardinality(delays) > 0 THEN LowVariance(delays) ELSE FALSE
    ELSE FALSE

on_time_count(payments) ==
    CountIf(payments, {p \in DOMAIN payments : Val(p.days_late) <= 0})

\* a variant of too_few_payments: len(payments) < 2
FewerThanTwo(payments) == BagCardinality(payments) < 2

\* len(payments) < 3
too_few_payments(payments) == BagCardinality(payments) < MinPayments

Returns(v) == [exc |-> "none", val |-> v]
Raises(e) == [exc |-> e, val |-> 0]

\* the body of calculate_payment_score on the rows its query returned
calculate_payment_score(payments) ==
    IF too_few_payments(payments) THEN Returns(1)
    ELSE IF \E p \in DOMAIN payments : IsNone(p.days_late)
         THEN Raises("TypeError")   \* None <= 0
    ELSE IF \/ on_time_count(payments) >= 5
            \/ (on_time_count(payments) >= 4 /\ is_consistent_pattern(payments))
         THEN Returns(3)
    ELSE IF on_time_count(payments) >= 4 THEN Returns(2)
    ELSE IF on_time_count(payments) >= 2 \/ is_consistent_pattern(payments)
         THEN Returns(1)
    ELSE Returns(0)

-----------------------------------------------------------------------------
(* calculate_communication_score                                           *)

ContactWindow == 5
ResponseLimitHours == 48

\* db((b2c_id == b2c_id) & (initiated_by == 'MFI')).select(
\*     orderby=~communication_date, limitby=(0, 5))
last_contacts(b2c_id) ==
    SelectLatest(Where(b2c_communication,
                       {c \in DOMAIN b2c_communication :
                          c.b2c_id = b2c_id /\ c.initiated_by = "MFI"}),
                 "communication_date", ContactWindow)

\* a variant of responses_within_48h: response_time_hours < 48
ResponsesUnder48h(comms) ==
    CountIf(comms, {c \in DOMAIN comms :
                      /\ ~IsNone(c.response_time_hours)
                      /\ Val(c.response_time_hours) < ResponseLimitHours})

responses_within_48h(comms) ==
    CountIf(comms, {c \in DOMAIN comms :
                      /\ ~IsNone(c.response_time_hours)
                      /\ Val(c.response_time_hours) <= ResponseLimitHours})

\* the body of calculate_communication_score on the rows its query returned;
\* response_rate >= 0.8 and >= 0.5 are compared in tenths
calculate_communication_score(comms) ==
    IF BagCardinality(comms) = 0 THEN 1
    ELSE IF 10 * responses_within_48h(comms) >= 8 * BagCardinality(comms) THEN 2
    ELSE IF 10 * responses_within_48h(comms) >= 5 * BagCardinality(comms) THEN 1
    ELSE 0

-----------------------------------------------------------------------------
(* calculate_proactivity_score                                             *)

NinetyDays == 90

ninety_days_ago == now - NinetyDays

proactive_comms(b2c_id) ==
    CountIf(b2c_communication,
            {c \in DOMAIN b2c_communication :
               /\ c.b2c_id = b2c_id
               /\ c.is_proactive = TRUE
               /\ c.communication_date >= ninety_days_ago})

recent_comms(b2c_id) ==
    CountIf(b2c_communication,
            {c \in DOMAIN b2c_communication :
               /\ c.b2c_id = b2c_id
               /\ c.initiated_by = "BORROWER"
               /\ c.communication_date >= ninety_days_ago})

calculate_proactivity_score(b2c_id) ==
    IF proactive_comms(b2c_id) >= 2 THEN 2
    ELSE IF proactive_comms(b2c_id) >= 1 THEN 1
    ELSE IF recent_comms(b2c_id) >= 2 THEN 1
    ELSE 0

-----------------------------------------------------------------------------
(* calculate_traffic_light_status                                          *)

NoBreakdown == [payment |-> 0, communication |-> 0, proactivity |-> 0, total |-> 0]

\* a variant of classify: GREEN only above 6
ClassifyAboveSix(total_score) ==
    IF total_score > 6 THEN "GREEN"
    ELSE IF total_score >= 4 THEN "YELLOW"
    ELSE "RED"

\* a variant of total_of: the proactivity score left out
TotalWithoutProactivity(payment_score, communication_score, proactivity_score) ==
    payment_score + communication_score

\* total_score = payment_score + communication_score + proactivity_score
total_of(payment_score, communication_score, proactivity_score) ==
    payment_score + communication_score + proactivity_score

classify(total_score) ==
    IF total_score >= 6 THEN "GREEN"
    ELSE IF total_score >= 4 THEN "YELLOW"
    ELSE "RED"

\* calculate_traffic_light_status(b2c_id), given the rows its two limited
\* queries returned
calculate_traffic_light_status(b2c_id, payments, comms) ==
    LET p == calculate_payment_score(payments)
    IN  IF p.exc # "none"
        THEN [exc |-> p.exc, status |-> "none", score |-> 0,
              breakdown |-> NoBreakdown]
        ELSE LET payment_score == p.val
                 communication_score == calculate_communication_score(comms)
                 proactivity_score == calculate_proactivity_score(b2c_id)
                 total_score == total_of(payment_score, communication_score,
                                         proactivity_score)
             IN  [exc |-> "none", status |-> classify(total_score),
                  score |-> total_score,
                  breakdown |-> [payment |-> payment_score,
                                 communication |-> communication_score,
                                 proactivity |-> proactivity_score,
                                 total |-> total_score]]

-----------------------------------------------------------------------------
(* State.                                                                  *)

\* what the last request or call did: fn the function, b2c_id its argument,
\* at the clock it read, exc the exception it raised ("none": it returned),
\* val / status / breakdown what it returned, ok the first component of
\* update_borrower_traffic_light's result, payments and comms the rows its
\* limited queries returned, pattern the value of is_consistent_pattern,
\* old_status / old_score the b2c row it read.  repeated: the request before
\* it was an update_borrower_traffic_light of the same borrower that wrote
\* the row, made at prev_at on the rows prev_payments and prev_comms
NoCall ==
    [fn |-> "none", b2c_id |-> 0, at |-> 0, exc |-> "none", val |-> 0,
     status |-> "none", ok |-> FALSE, breakdown |-> NoBreakdown,
     payments |-> EmptyBag, comms |-> EmptyBag, pattern |-> FALSE,
     old_status |-> "none", old_score |-> 0,
     repeated |-> FALSE, prev_at |-> 0,
     prev_payments |-> EmptyBag, prev_comms |-> EmptyBag]

\* a new b2c row: traffic_light_status default 'YELLOW', visibility_score 0,
\* no status_notes
NewBorrower ==
    [traffic_light_status |-> "YELLOW", visibility_score |-> 0,
     status_notes |-> [changed_from |-> "none", changed_to |-> "none",
                       breakdown |-> NoBreakdown, notes |-> None]]

\* a session with nothing stored in it: session.clear()
NoSession ==
    [mfi_id |-> None, b2c_id |-> None, user_id |-> None,
     responsible_id |-> None, participant_id |-> None, context_id |-> None]

\* a table whose rows are looked up by id, without a row
EmptyTable == [i \in {} |-> 0]

\* the other tables, each without a row.  Tables read by id are functions
\* from the ids, the others sets of rows that carry their id; sequence is
\* the last id each autoincrement has given out
NoRows ==
    [flyer |-> EmptyTable, flyer_view |-> EmptyBag, flyer_owner |-> "b2c_id",
     work_activity |-> {}, daily_signal |-> {}, info_flyer_recipient |-> {},
     mfi_info_flyer |-> EmptyTable,
     mfi |-> EmptyTable, responsible |-> EmptyTable, vendor_account |-> {},
     participant |-> EmptyTable, execution_signal |-> {},
     instruction |-> EmptyTable, instruction_recipient |-> {},
     sequence |-> [b2c |-> 0, participant |-> 0, signal |-> 0,
                   info_flyer |-> 0, instruction |-> 0, flyer |-> 0,
                   work_activity |-> 0]]

\* what a request handler answered: handler its name, body whether the
\* function behind the login decorator ran, flash the message it left
\* in response.flash, session_flash the one in session.flash, redirect the
\* page it redirected to, exc the exception that ended the request,
\* can_create what the dashboard returned to its view, error the error a
\* handler returned to its view
NoResponse ==
    [handler |-> "none", body |-> FALSE, flash |-> None,
     session_flash |-> None, redirect |-> None, exc |-> "none",
     can_create |-> FALSE, error |-> None]

Init ==
    /\ b2c = [b \in B2cIds |-> NewBorrower]
    /\ b2c_payment = EmptyBag
    /\ b2c_communication = EmptyBag
    /\ now = 0
    /\ ret = NoCall
    /\ session = NoSession
    /\ db = NoRows
    /\ response = NoResponse

\* db.b2c_payment.insert(b2c_id, due_date, days_late), at most max rows
InsertPayment(b, due, late, max) ==
    /\ BagCardinality(b2c_payment) < max
    /\ b2c_payment' = b2c_payment (+)
           SetToBag({[b2c_id |-> b, due_date |-> due, days_late |-> late]})
    /\ ret' = [NoCall EXCEPT !.fn = "insert", !.b2c_id = b]
    /\ UNCHANGED <<b2c, b2c_communication, now>>
    /\ UNCHANGED portal

\* db.b2c_communication.insert(...), communication_date default request.now
InsertCommunication(b, by, hours, proactive, max) ==
    /\ BagCardinality(b2c_communication) < max
    /\ b2c_communication' = b2c_communication (+)
           SetToBag({[b2c_id |-> b, initiated_by |-> by,
                      response_time_hours |-> hours,
                      is_proactive |-> proactive,
                      communication_date |-> now]})
    /\ ret' = [NoCall EXCEPT !.fn = "insert", !.b2c_id = b]
    /\ UNCHANGED <<b2c, b2c_payment, now>>
    /\ UNCHANGED portal

\* time passes
Tick(days) ==
    /\ now + days <= MaxNow
    /\ now' = now + days
    /\ UNCHANGED <<b2c, b2c_payment, b2c_communication, ret>>
    /\ UNCHANGED portal

CallPaymentScore(b) ==
    /\ \E payments \in last_payments(b) :
         LET r == calculate_payment_score(payments)
         IN  ret' = [NoCall EXCEPT
                       !.fn = "calculate_payment_score", !.b2c_id = b,
                       !.exc = r.exc, !.val = r.val,
                       !.payments = payments,
                       !.pattern = IF r.exc = "none"
                                   THEN is_consistent_pattern(payments)
                                   ELSE FALSE]
    /\ UNCHANGED <<b2c, b2c_payment, b2c_communication, now>>
    /\ UNCHANGED portal

CallCommunicationScore(b) ==
    /\ \E comms \in last_contacts(b) :
         ret' = [NoCall EXCEPT
                   !.fn = "calculate_communication_score", !.b2c_id = b,
                   !.val = calculate_communication_score(comms),
                   !.comms = comms]
    /\ UNCHANGED <<b2c, b2c_payment, b2c_communication, now>>
    /\ UNCHANGED portal

CallProactivityScore(b) ==
    /\ ret' = [NoCall EXCEPT
                 !.fn = "calculate_proactivity_score", !.b2c_id = b,
                 !.at = now,
                 !.val = calculate_proactivity_score(b)]
    /\ UNCHANGED <<b2c, b2c_payment, b2c_communication, now>>
    /\ UNCHANGED portal

CallTrafficLightStatus(b) ==
    /\ \E payments \in last_payments(b) : \E comms \in last_contacts(b) :
         LET r == calculate_traffic_light_status(b, payments, comms)
         IN  ret' = [NoCall EXCEPT
                       !.fn = "calculate_traffic_light_status", !.b2c_id = b,
                       !.at = now, !.exc = r.exc, !.val = r.score,
                       !.status = r.status, !.breakdown = r.breakdown,
                       !.payments = payments, !.comms = comms]
    /\ UNCHANGED <<b2c, b2c_payment, b2c_communication, now>>
    /\ UNCHANGED portal

\* a variant of status_note: the prefix is always written
StatusNoteAlwaysChanged(old_status, status, breakdown, notes) ==
    [changed_from |-> old_status, changed_to |-> status,
     breakdown |-> breakdown, notes |-> notes]

\* the status_notes update_borrower_traffic_light writes: the breakdown,
\* the caller's notes, and "Changed from %s to %s" if the status changed
status_note(old_status, status, breakdown, notes) ==
    [changed_from |-> IF old_status # status THEN old_status ELSE "none",
     changed_to |-> IF old_status # status THEN status ELSE "none",
     breakdown |-> breakdown, notes |-> notes]

\* a variant of updated_record: visibility_score takes the payment score
UpdatedRecordPaymentScore(old_status, r, notes) ==
    [traffic_light_status |-> r.status,
     visibility_score |-> r.breakdown.payment,
     status_notes |-> status_note(old_status, r.status, r.breakdown, notes)]

\* borrower.update_record(traffic_light_status, visibility_score, status_notes)
updated_record(old_status, r, notes) ==
    [traffic_light_status |-> r.status,
     visibility_score |-> r.score,
     status_notes |-> status_note(old_status, r.status, r.breakdown, notes)]

update_borrower_traffic_light(b2c_id, notes) ==
    /\ \E payments \in last_payments(b2c_id) : \E comms \in last_contacts(b2c_id) :
         LET r == calculate_traffic_light_status(b2c_id, payments, comms)
             again == /\ ret.fn = "update_borrower_traffic_light"
                      /\ ret.b2c_id = b2c_id
                      /\ ret.ok
             call == [NoCall EXCEPT
                        !.fn = "update_borrower_traffic_light",
                        !.b2c_id = b2c_id, !.at = now,
                        !.payments = payments, !.comms = comms,
                        !.repeated = again,
                        !.prev_at = IF again THEN ret.at ELSE 0,
                        !.prev_payments = IF again THEN ret.payments
                                          ELSE EmptyBag,
                        !.prev_comms = IF again THEN ret.comms ELSE EmptyBag]
         IN  IF r.exc # "none"
             THEN /\ ret' = [call EXCEPT !.exc = r.exc]
                  /\ b2c' = b2c
             ELSE IF b2c_id \in DOMAIN b2c
             THEN LET borrower == b2c[b2c_id]
                      old_status == borrower.traffic_light_status
                  IN  /\ b2c' = [b2c EXCEPT ![b2c_id] =
                                   updated_record(old_status, r, notes)
                                       @@ borrower]
                      /\ ret' = [call EXCEPT
                                   !.ok = TRUE, !.status = r.status,
                                   !.val = r.score,
                                   !.breakdown = r.breakdown,
                                   !.old_status = old_status,
                                   !.old_score = borrower.visibility_score]
             ELSE /\ ret' = call
                  /\ b2c' = b2c
    /\ UNCHANGED <<b2c_payment, b2c_communication, now>>
    /\ UNCHANGED portal

-----------------------------------------------------------------------------
(* Specifications.                                                         *)

Nullable(S) == {None} \cup {Some(v) : v \in S}

\* SpecPayment: the payment table under calculate_payment_score
NextPayment ==
    \/ \E p \in ([b2c_id : {1}, due_date : {1, 2},
                  days_late : Nullable({-3, 0, 1, 5})]
                 \cup {[b2c_id |-> 2, due_date |-> 2, days_late |-> Some(5)]}) :
         InsertPayment(p.b2c_id, p.due_date, p.days_late, MaxPayments)
    \/ \E b \in B2cIds : CallPaymentScore(b)

SpecPayment == Init /\ [][NextPayment]_vars

\* SpecCommunication: the communication log under calculate_communication_score
NextCommunication ==
    \/ \E c \in ([b2c_id : {1}, initiated_by : {"MFI", "BORROWER"},
                  response_time_hours : Nullable({48, 49}),
                  is_proactive : {FALSE}]
                 \cup {[b2c_id |-> 2, initiated_by |-> "MFI",
                        response_time_hours |-> None, is_proactive |-> FALSE]}) :
         InsertCommunication(c.b2c_id, c.initiated_by, c.response_time_hours,
                             c.is_proactive, MaxContacts)
    \* the clock moves past the trailing 90 days
    \/ Tick(91)
    \/ \E b \in B2cIds : CallCommunicationScore(b)

SpecCommunication == Init /\ [][NextCommunication]_vars

\* SpecProactivity: the communication log under calculate_proactivity_score
NextProactivity ==
    \/ \E c \in ([b2c_id : {1}, initiated_by : {"MFI", "BORROWER"},
                  response_time_hours : {None}, is_proactive : BOOLEAN]
                 \cup {[b2c_id |-> 2, initiated_by |-> "BORROWER",
                        response_time_hours |-> None, is_proactive |-> TRUE]}) :
         InsertCommunication(c.b2c_id, c.initiated_by, c.response_time_hours,
                             c.is_proactive, MaxMessages)
    \* the clock moves up to the edge of the trailing 90 days, or past it
    \/ \E d \in {90, 91} : Tick(d)
    \/ \E b \in B2cIds : CallProactivityScore(b)

SpecProactivity == Init /\ [][NextProactivity]_vars

\* SpecStatus: both tables under calculate_traffic_light_status
LogInputs ==
    {[b2c_id |-> 1, initiated_by |-> "MFI",
      response_time_hours |-> Some(48), is_proactive |-> FALSE],
     [b2c_id |-> 1, initiated_by |-> "MFI",
      response_time_hours |-> None, is_proactive |-> FALSE],
     [b2c_id |-> 1, initiated_by |-> "BORROWER",
      response_time_hours |-> None, is_proactive |-> TRUE]}

NextStatus ==
    \/ \E p \in [b2c_id : {1}, due_date : {1},
                  days_late : {None, Some(0), Some(5)}] :
         InsertPayment(p.b2c_id, p.due_date, p.days_late, MaxLedger)
    \/ \E c \in LogInputs :
         InsertCommunication(c.b2c_id, c.initiated_by, c.response_time_hours,
                             c.is_proactive, MaxLog)
    \* the clock moves past the trailing 90 days
    \/ Tick(91)
    \/ \E b \in {1, 3} : CallTrafficLightStatus(b)

SpecStatus == Init /\ [][NextStatus]_vars

\* Spec: both tables under update_borrower_traffic_light

Next ==
    \/ \E p \in [b2c_id : {1}, due_date : {1},
                  days_late : {None, Some(0), Some(5)}] :
         InsertPayment(p.b2c_id, p.due_date, p.days_late, MaxStoredPayments)
    \/ \E c \in LogInputs :
         InsertCommunication(c.b2c_id, c.initiated_by, c.response_time_hours,
                             c.is_proactive, MaxStoredComms)
    \* the clock moves past the trailing 90 days
    \/ Tick(91)
    \/ \E b \in {1, 3} :
       \E notes \in {None, Some("Borrower reported payment")} :
         update_borrower_traffic_light(b, notes)

Spec == Init /\ [][Next]_vars

-----------------------------------------------------------------------------
(* The portals: accounts, sessions and logins (controllers/).              *)

\* the rows on file in db.mfi and db.responsible, both managed outside the
\* portals; b2c_accounts and participant_limit are the limits of the
\* accounts each may create

\* bcrypt.hashpw(password, gensalt()): a hash answers to one password
hashpw(password) == [bcrypt |-> TRUE, of |-> password]

\* hash_b2c_password_on_insert / _on_update, hash_mfi_password_on_update:
\* what is stored for a password; the hooks take a password that starts
\* with '$2b$' or '$2a$' for a hash and store it as it is
stored_password(pwd_plain) ==
    IF pwd_plain \in {"$2b$typed"}
    THEN [bcrypt |-> FALSE, of |-> pwd_plain]
    ELSE hashpw(pwd_plain)

MalformedHash == stored_password("$2b$typed")

\* bcrypt.checkpw(password, hash): 1 for True, 0 for False, and
\* ValueError("Invalid salt") on a string that is no hash
checkpw(password, hash) ==
    IF ~hash.bcrypt THEN Raises("ValueError")
    ELSE Returns(IF hash.of = password THEN 1 ELSE 0)

mfi ==
    [m \in {1, 2} |->
       [username |-> IF m = 1 THEN "mfi1" ELSE "mfi2",
        password_hash |-> IF m = 1 THEN Some(hashpw("mfi-secret"))
                          ELSE Some(MalformedHash),
        b2c_accounts |-> IF m = 1 THEN 2 ELSE 1]]

responsible ==
    [m \in {1, 2} |->
       [username |-> IF m = 1 THEN "resp1" ELSE "resp2",
        password_hash |-> IF m = 1 THEN Some(hashpw("resp-secret"))
                          ELSE Some(MalformedHash),
        context_id |-> m,
        participant_limit |-> IF m = 1 THEN 2 ELSE 1]]

\* a b2c row as create_b2c's form inserts it: the defaults of the table and
\* the columns of the form; the forms here give the username as real_name
BorrowerOf(mfi_id, username, password_hash) ==
    [mfi_id |-> mfi_id, username |-> username,
     password_hash |-> password_hash, real_name |-> username,
     amount_borrowed |-> 0, amount_repaid_b2c_reported |-> 0] @@ NewBorrower

\* db(db.<table>.username == username).select().first(): the id of the row,
\* None without one (username is unique)
FirstByUsername(rows, username) ==
    IF \E i \in DOMAIN rows : rows[i].username = username
    THEN Some(CHOOSE i \in DOMAIN rows : rows[i].username = username)
    ELSE None

\* a participant row, a function from ids like b2c
ParticipantOf(responsible_id, context_id, username, password_hash) ==
    [responsible_id |-> responsible_id, context_id |-> context_id,
     username |-> username, password_hash |-> password_hash,
     amount_borrowed |-> 0, amount_repaid_b2c_reported |-> 0]

Answer(handler) == [NoResponse EXCEPT !.handler = handler]

\* redirect(URL(page)) with session.flash set before it
Redirected(handler, message, page) ==
    [Answer(handler) EXCEPT !.session_flash = message, !.redirect = Some(page)]

\* a variant of LoginOutcome: the exception of the comparison is not caught
LoginOutcomeUncaught(check, error_message) ==
    IF check.exc # "none"
    THEN [ok |-> FALSE, flash |-> None, exc |-> check.exc]
    ELSE IF check.val = 1
    THEN [ok |-> TRUE, flash |-> Some(error_message), exc |-> "none"]
    ELSE [ok |-> FALSE, flash |-> Some("Invalid username or password"),
          exc |-> "none"]

\* the try block of a login: checkpw true stores the ids in the session and
\* calls redirect, whose HTTP exception the except clause catches like any
\* other; checkpw false flashes the rejection; an exception of checkpw is
\* caught and flashes the error message
LoginOutcome(check, error_message) ==
    IF check.exc # "none"
    THEN [ok |-> FALSE, flash |-> Some(error_message), exc |-> "none"]
    ELSE IF check.val = 1
    THEN [ok |-> TRUE, flash |-> Some(error_message), exc |-> "none"]
    ELSE [ok |-> FALSE, flash |-> Some("Invalid username or password"),
          exc |-> "none"]

\* mfi.login
mfi_login(username, password) ==
    /\ IF ~IsNone(session.mfi_id)
       THEN /\ response' = Redirected("mfi.login", None, "dashboard")
            /\ session' = session
       ELSE IF username = "" \/ password = ""
       THEN /\ response' = [Answer("mfi.login") EXCEPT
                              !.flash = Some("Please fill in all fields")]
            /\ session' = session
       ELSE LET user == FirstByUsername(db.mfi, username)
            IN  IF ~IsNone(user) /\ ~IsNone(db.mfi[Val(user)].password_hash)
                THEN LET o == LoginOutcome(
                                  checkpw(password,
                                          Val(db.mfi[Val(user)].password_hash)),
                                  "Login error. Please contact administrator.")
                     IN  /\ session' = IF o.ok
                                       THEN [session EXCEPT !.mfi_id = user]
                                       ELSE session
                         /\ response' = [Answer("mfi.login") EXCEPT
                                           !.flash = o.flash, !.exc = o.exc,
                                           !.redirect =
                                               IF o.exc = "none"
                                               THEN Some("login") ELSE None]
                ELSE /\ response' = [Answer("mfi.login") EXCEPT
                           !.flash = Some("Invalid username or password")]
                     /\ session' = session
    /\ UNCHANGED <<b2c, b2c_payment, b2c_communication, now, ret, db>>

\* b2c.login: it also stores the borrower's mfi_id in the session, and it
\* returns the form where mfi.login redirects
b2c_login(username, password) ==
    /\ IF ~IsNone(session.b2c_id)
       THEN /\ response' = Redirected("b2c.login", None, "dashboard")
            /\ session' = session
       ELSE IF username = "" \/ password = ""
       THEN /\ response' = [Answer("b2c.login") EXCEPT
                              !.flash = Some("Please fill in all fields")]
            /\ session' = session
       ELSE LET borrower == FirstByUsername(b2c, username)
            IN  IF ~IsNone(borrower)
                   /\ ~IsNone(b2c[Val(borrower)].password_hash)
                THEN LET o == LoginOutcome(
                                  checkpw(password,
                                          Val(b2c[Val(borrower)].password_hash)),
                                  "Login error. Please contact your MFI.")
                     IN  /\ session' =
                               IF o.ok
                               THEN [session EXCEPT
                                       !.b2c_id = borrower,
                                       !.mfi_id =
                                           Some(b2c[Val(borrower)].mfi_id)]
                               ELSE session
                         /\ response' = [Answer("b2c.login") EXCEPT
                                           !.flash = o.flash, !.exc = o.exc]
                ELSE /\ response' = [Answer("b2c.login") EXCEPT
                           !.flash = Some("Invalid username or password")]
                     /\ session' = session
    /\ UNCHANGED <<b2c, b2c_payment, b2c_communication, now, ret, db>>

\* responsible.login
responsible_login(username, password) ==
    /\ IF ~IsNone(session.responsible_id)
       THEN /\ response' = Redirected("responsible.login", None, "dashboard")
            /\ session' = session
       ELSE IF username = "" \/ password = ""
       THEN /\ response' = [Answer("responsible.login") EXCEPT
                              !.flash = Some("Please fill in all fields")]
            /\ session' = session
       ELSE LET user == FirstByUsername(db.responsible, username)
            IN  IF ~IsNone(user)
                   /\ ~IsNone(db.responsible[Val(user)].password_hash)
                THEN LET o == LoginOutcome(
                                  checkpw(password,
                                      Val(db.responsible[Val(user)].password_hash)),
                                  "Login error. Please contact administrator.")
                     IN  /\ session' =
                               IF o.ok
                               THEN [session EXCEPT
                                       !.responsible_id = user,
                                       !.context_id =
                                           Some(db.responsible[Val(user)].context_id)]
                               ELSE session
                         /\ response' = [Answer("responsible.login") EXCEPT
                                           !.flash = o.flash, !.exc = o.exc,
                                           !.redirect =
                                               IF o.exc = "none"
                                               THEN Some("login") ELSE None]
                ELSE /\ response' = [Answer("responsible.login") EXCEPT
                           !.flash = Some("Invalid username or password")]
                     /\ session' = session
    /\ UNCHANGED <<b2c, b2c_payment, b2c_communication, now, ret, db>>

\* participant.login: it also stores the participant's responsible_id in
\* the session
participant_login(username, password) ==
    /\ IF ~IsNone(session.participant_id)
       THEN /\ response' = Redirected("participant.login", None, "dashboard")
            /\ session' = session
       ELSE IF username = "" \/ password = ""
       THEN /\ response' = [Answer("participant.login") EXCEPT
                              !.flash = Some("Please fill in all fields")]
            /\ session' = session
       ELSE LET user == FirstByUsername(db.participant, username)
            IN  IF ~IsNone(user)
                   /\ ~IsNone(db.participant[Val(user)].password_hash)
                THEN LET row == db.participant[Val(user)]
                         o == LoginOutcome(
                                  checkpw(password, Val(row.password_hash)),
                                  "Login error. Please contact administrator.")
                     IN  /\ session' =
                               IF o.ok
                               THEN [session EXCEPT
                                       !.participant_id = user,
                                       !.context_id = Some(row.context_id),
                                       !.responsible_id =
                                           Some(row.responsible_id)]
                               ELSE session
                         /\ response' = [Answer("participant.login") EXCEPT
                                           !.flash = o.flash, !.exc = o.exc,
                                           !.redirect =
                                               IF o.exc = "none"
                                               THEN Some("login") ELSE None]
                ELSE /\ response' = [Answer("participant.login") EXCEPT
                           !.flash = Some("Invalid username or password")]
                     /\ session' = session
    /\ UNCHANGED <<b2c, b2c_payment, b2c_communication, now, ret, db>>

\* logout of any of the four controllers: session.clear()
logout ==
    /\ session' = NoSession
    /\ response' = Redirected("logout", None, "login")
    /\ UNCHANGED <<b2c, b2c_payment, b2c_communication, now, ret, db>>

\* the wrapper of mfi_requires_login when session.mfi_id is not set
mfi_requires_login(handler) ==
    Redirected(handler, Some("Please log in first"), "login")

\* the wrappers of b2c_requires_login, responsible_requires_login and
\* participant_requires_login: the same on their own session keys
b2c_requires_login(handler) ==
    Redirected(handler, Some("Please log in first"), "login")

responsible_requires_login(handler) ==
    Redirected(handler, Some("Please log in first"), "login")

participant_requires_login(handler) ==
    Redirected(handler, Some("Please log in first"), "login")

\* what a handler's body answers: the decorator let it run
Ran(handler) == [Answer(handler) EXCEPT !.body = TRUE]

RanRedirected(handler, message, page) ==
    [Redirected(handler, message, page) EXCEPT !.body = TRUE]

-----------------------------------------------------------------------------
(* The payment ledger: calculate_days_late and b2c.report_payment.         *)

\* calculate_days_late(fields): fields holds the columns of this insert or
\* update, and days_late is set only when both dates are among them
calculate_days_late(fields) ==
    IF /\ "paid_date" \in DOMAIN fields
       /\ ~IsNone(fields.paid_date)
       /\ "due_date" \in DOMAIN fields
    THEN [days_late |-> Some(Val(fields.paid_date) - fields.due_date)] @@ fields
    ELSE fields

\* db.b2c_payment.insert(**fields): the defaults of the columns left out
\* are filled in before the _before_insert hook runs (days_late has
\* default=0, the others are NULL)
inserted_payment(fields) ==
    calculate_days_late(fields @@ [days_late |-> Some(0)])
    @@ [paid_date |-> None, payment_method |-> None, notes |-> None]

\* row.update_record(**fields): the _before_update hook sees the columns of
\* the update alone
updated_payment(row, fields) == calculate_days_late(fields) @@ row

\* db.b2c_payment.insert(**fields) by the institution's staff
InsertPaymentRecord(fields, max) ==
    /\ BagCardinality(b2c_payment) < max
    /\ fields.b2c_id \in DOMAIN b2c
    /\ b2c_payment' = b2c_payment (+) SetToBag({inserted_payment(fields)})
    /\ response' = Answer("b2c_payment.insert")
    /\ UNCHANGED <<b2c, b2c_communication, now, ret, session, db>>

\* a correction edit: the edit form of a payment submits every column of
\* the row
EditPaymentRecord(row, fields) ==
    /\ BagIn(row, b2c_payment)
    /\ b2c_payment' = (b2c_payment (-) SetToBag({row}))
                          (+) SetToBag({updated_payment(row, fields)})
    /\ response' = Answer("b2c_payment.update")
    /\ UNCHANGED <<b2c, b2c_communication, now, ret, session, db>>

\* db((b2c_id == session.b2c_id) & (paid_date == None)).select(
\*     orderby=due_date, limitby=(0, 1)).first(): the rows the query may give
matching_payment(b2c_id) ==
    LET unpaid == {p \in DOMAIN b2c_payment :
                     p.b2c_id = b2c_id /\ IsNone(p.paid_date)}
    IN  {p \in unpaid : \A q \in unpaid : p.due_date <= q.due_date}

\* the row report_payment logs in b2c_communication.  amount is
\* form.vars.amount as it was posted: the text of a browser's form (the
\* field's requires=IS_NOT_EMPTY() replaces the validator that would turn
\* it into a number) or the number of a JSON body.  On a text,
\* "%.2f" % form.vars.amount raises TypeError and no row is logged: None
reported_communication(b2c_id, amount) ==
    IF amount.text THEN None
    ELSE Some([b2c_id |-> b2c_id, initiated_by |-> "BORROWER",
               response_time_hours |-> None, is_proactive |-> TRUE,
               communication_date |-> now])

\* the b2c_payment table after the accepted form, given the row the query
\* for the matching payment gave (None: no unpaid row)
reported_payments(b2c_id, form, matching) ==
    IF ~IsNone(matching)
    THEN (b2c_payment (-) SetToBag({Val(matching)}))
             (+) SetToBag({updated_payment(Val(matching),
                               [paid_date |-> Some(form.paid_date),
                                payment_method |-> Some(form.payment_method),
                                notes |-> form.notes])})
    ELSE b2c_payment
             (+) SetToBag({inserted_payment(
                               [b2c_id |-> b2c_id,
                                amount |-> Val(form.amount).of,
                                due_date |-> form.paid_date,
                                paid_date |-> Some(form.paid_date),
                                payment_method |-> Some(form.payment_method),
                                notes |-> Some("Self-reported by borrower")])})

\* b2c.report_payment with a submitted form.  The payment write takes the
\* amount as text or as number; the TypeError of the insert into
\* b2c_communication on a text, and an exception of
\* update_borrower_traffic_light, end the request and roll the
\* transaction back
report_payment(form) ==
    IF IsNone(session.b2c_id)
    THEN /\ response' = b2c_requires_login("b2c.report_payment")
         /\ UNCHANGED <<b2c, b2c_payment, b2c_communication, now, ret,
                        session, db>>
    ELSE IF Val(session.b2c_id) \notin DOMAIN b2c
    THEN /\ session' = NoSession
         /\ response' = RanRedirected("b2c.report_payment", None, "login")
         /\ UNCHANGED <<b2c, b2c_payment, b2c_communication, now, ret, db>>
    ELSE IF IsNone(form.amount)
    THEN /\ response' = Ran("b2c.report_payment")
         /\ UNCHANGED <<b2c, b2c_payment, b2c_communication, now, ret,
                        session, db>>
    ELSE
      \E b2c_id \in {Val(session.b2c_id)} :
      LET found == matching_payment(b2c_id)
      IN  \E matching \in IF found = {} THEN {None}
                          ELSE {Some(p) : p \in found} :
          LET payment_rows == reported_payments(b2c_id, form, matching)
          IN  \E payments \in last_payments_of(payment_rows, b2c_id) :
                IF IsNone(reported_communication(b2c_id, Val(form.amount)))
                THEN /\ response' = [Ran("b2c.report_payment") EXCEPT
                                       !.exc = "TypeError"]
                     /\ UNCHANGED <<b2c, b2c_payment, b2c_communication,
                                    now, ret, session, db>>
                ELSE IF calculate_payment_score(payments).exc # "none"
                THEN /\ response' =
                          [Ran("b2c.report_payment") EXCEPT
                             !.exc = calculate_payment_score(payments).exc]
                     /\ UNCHANGED <<b2c, b2c_payment, b2c_communication,
                                    now, ret, session, db>>
                ELSE /\ b2c_payment' = payment_rows
                     /\ b2c_communication' = b2c_communication
                            (+) SetToBag({Val(reported_communication(
                                              b2c_id, Val(form.amount)))})
                     /\ now' = now
                     /\ \E comms \in last_contacts(b2c_id)' :
                          LET r == calculate_traffic_light_status(
                                       b2c_id, payments, comms)'
                              borrower == b2c[b2c_id]
                          IN  b2c' = [b2c EXCEPT ![b2c_id] =
                                        updated_record(
                                            borrower.traffic_light_status, r,
                                            Some("Borrower reported payment"))
                                        @@ borrower]
                     /\ response' = RanRedirected(
                            "b2c.report_payment",
                            Some("Payment reported successfully. Your MFI will verify it."),
                            "finances")
                     /\ UNCHANGED <<ret, session, db>>

\* the borrowers of the ledger: one of each institution
LedgerBorrowers ==
    [b \in B2cIds |->
       BorrowerOf(b, IF b = 1 THEN "ana" ELSE "ben",
                  Some(hashpw(IF b = 1 THEN "ana-pw" ELSE "ben-pw")))]

InitLedger ==
    /\ b2c = LedgerBorrowers
    /\ b2c_payment = EmptyBag
    /\ b2c_communication = EmptyBag
    /\ now = 2
    /\ ret = NoCall
    /\ session = NoSession
    /\ db = NoRows
    /\ response = NoResponse

\* most rows the staff inserts into b2c_payment in SpecLedger, and most
\* reports the borrowers make
MaxLedgerRows == 3
MaxReports == 1


\* what the borrower's form submits: no amount, an amount typed into the
\* browser's form, or a number in a JSON body
ReportForms ==
    [amount : Nullable([of : {100}, text : BOOLEAN]), paid_date : {2},
     payment_method : {"Cash"}, notes : {None}]

\* the staff's insert form, the staff's edit form, which holds every
\* column but b2c_id, the logins and the borrower's report
NextLedger ==
    \/ \E fields \in
           [b2c_id : B2cIds, amount : {100}, due_date : {1, 2},
            paid_date : Nullable({2}), days_late : {None, Some(0)}]
           \cup [b2c_id : {1}, amount : {100}, due_date : {1}] :
         InsertPaymentRecord(fields, MaxLedgerRows)
    \/ \E row \in DOMAIN b2c_payment :
       \E fields \in
           [amount : {100}, due_date : {1, 2}, paid_date : Nullable({2}),
            days_late : {Some(0)}, payment_method : {None}, notes : {None}] :
         EditPaymentRecord(row, fields)
    \/ b2c_login("ana", "ana-pw")
    \/ logout
    \/ /\ BagCardinality(b2c_communication) < MaxReports
       /\ \E form \in ReportForms : report_payment(form)

SpecLedger == InitLedger /\ [][NextLedger]_vars

-----------------------------------------------------------------------------
(* The four logins on accounts that exist.                                 *)

\* pia and pat of institution 1, pol of institution 2 whose password was
\* stored as typed
LoginParticipants ==
    [p \in {1, 2, 3} |->
       ParticipantOf(IF p = 2 THEN 2 ELSE 1, IF p = 2 THEN 2 ELSE 1,
                     IF p = 1 THEN "pia" ELSE IF p = 2 THEN "pol" ELSE "pat",
                     Some(IF p = 1 THEN hashpw("pia-pw")
                          ELSE IF p = 2 THEN MalformedHash
                          ELSE hashpw("pat-pw")))]

\* accounts on file: ana of institution 1 with a hashed password, ben of
\* institution 2 whose password was stored as typed
InitLogin ==
    /\ b2c = [b \in B2cIds |->
                BorrowerOf(b, IF b = 1 THEN "ana" ELSE "ben",
                           Some(IF b = 1 THEN hashpw("ana-pw") ELSE MalformedHash))]
    /\ b2c_payment = EmptyBag
    /\ b2c_communication = EmptyBag
    /\ now = 0
    /\ ret = NoCall
    /\ session = NoSession
    /\ db = [NoRows EXCEPT !.mfi = mfi, !.responsible = responsible,
                           !.participant = LoginParticipants]
    /\ response = NoResponse

\* what the login forms submit
LoginNames ==
    {"", "nobody", "mfi1", "mfi2", "ana", "ben", "resp1", "resp2",
     "pia", "pol", "pat"}

LoginPasswords ==
    {"", "wrong", "mfi-secret", "ana-pw", "resp-secret", "pia-pw", "pat-pw"}

NextLogin ==
    \/ \E u \in LoginNames, p \in LoginPasswords : mfi_login(u, p)
    \/ \E u \in LoginNames, p \in LoginPasswords : b2c_login(u, p)
    \/ \E u \in LoginNames, p \in LoginPasswords : responsible_login(u, p)
    \/ \E u \in LoginNames, p \in LoginPasswords : participant_login(u, p)
    \/ logout

SpecLogin == InitLogin /\ [][NextLogin]_vars

-----------------------------------------------------------------------------
(* The institution's handlers on its borrowers (controllers/mfi.py).       *)

\* db(db.<table>.id == id).delete() on a table read by id
Without(rows, id) == [i \in DOMAIN rows \ {id} |-> rows[i]]

\* ondelete='CASCADE' of a 'reference b2c' column: the rows of a bag that
\* go with the b2c row they reference
cascaded(B, b2c_id) ==
    [r \in {x \in DOMAIN B : x.b2c_id # b2c_id} |-> B[r]]

\* db(db.b2c.mfi_id == mfi_id).count()
b2c_count(mfi_id) ==
    Cardinality({i \in DOMAIN b2c : b2c[i].mfi_id = mfi_id})

\* a variant of limit_reached: one account more than the limit is let in
limit_exceeded(current_count, limit) == current_count > limit

\* create_b2c: current_count >= mfi_record.b2c_accounts
limit_reached(current_count, limit) == current_count >= limit

\* mfi.dashboard
mfi_dashboard ==
    /\ IF IsNone(session.mfi_id)
       THEN /\ response' = mfi_requires_login("mfi.dashboard")
            /\ session' = session
       ELSE IF Val(session.mfi_id) \notin DOMAIN db.mfi
       THEN /\ session' = NoSession
            /\ response' = RanRedirected("mfi.dashboard", None, "login")
       ELSE /\ response' =
                 [Ran("mfi.dashboard") EXCEPT
                    !.can_create =
                        b2c_count(Val(session.mfi_id))
                            < db.mfi[Val(session.mfi_id)].b2c_accounts]
            /\ session' = session
    /\ UNCHANGED <<b2c, b2c_payment, b2c_communication, now, ret, db>>

\* validate_b2c_limit(fields), the _before_insert hook of db.b2c: TRUE when
\* it raises
validate_b2c_limit(fields) ==
    /\ fields.mfi_id \in DOMAIN db.mfi
    /\ b2c_count(fields.mfi_id) >= db.mfi[fields.mfi_id].b2c_accounts

\* mfi.create_b2c; form is None for a GET and the submitted username and
\* password otherwise, max the last id the autoincrement may give out
create_b2c(form, max) ==
    IF IsNone(session.mfi_id)
    THEN /\ response' = mfi_requires_login("mfi.create_b2c")
         /\ UNCHANGED <<b2c, b2c_payment, b2c_communication, now, ret,
                        session, db>>
    ELSE IF Val(session.mfi_id) \notin DOMAIN db.mfi
    THEN /\ response' = [Ran("mfi.create_b2c") EXCEPT
                           !.exc = "AttributeError"]
         /\ UNCHANGED <<b2c, b2c_payment, b2c_communication, now, ret,
                        session, db>>
    ELSE IF limit_reached(b2c_count(Val(session.mfi_id)),
                          db.mfi[Val(session.mfi_id)].b2c_accounts)
    THEN /\ response' = RanRedirected(
                "mfi.create_b2c",
                Some("Maximum B2C account limit reached"), "dashboard")
         /\ UNCHANGED <<b2c, b2c_payment, b2c_communication, now, ret,
                        session, db>>
    ELSE IF \/ IsNone(form)
            \/ ~IsNone(FirstByUsername(b2c, Val(form).username))
    THEN /\ response' = Ran("mfi.create_b2c")
         /\ UNCHANGED <<b2c, b2c_payment, b2c_communication, now, ret,
                        session, db>>
    ELSE IF validate_b2c_limit([mfi_id |-> Val(session.mfi_id)])
    THEN /\ response' = [Ran("mfi.create_b2c") EXCEPT !.exc = "Exception"]
         /\ UNCHANGED <<b2c, b2c_payment, b2c_communication, now, ret,
                        session, db>>
    ELSE /\ db.sequence.b2c < max
         /\ b2c' = (db.sequence.b2c + 1 :>
                       BorrowerOf(Val(session.mfi_id), Val(form).username,
                                  Some(stored_password(Val(form).password))))
                   @@ b2c
         /\ db' = [db EXCEPT !.sequence.b2c = @ + 1]
         /\ response' = RanRedirected(
                "mfi.create_b2c",
                Some("B2C account created successfully"), "b2c")
         /\ UNCHANGED <<b2c_payment, b2c_communication, now, ret, session>>

\* a variant of owned_b2c: the account exists, whoever owns it
any_b2c(b2c_id) == b2c_id \in DOMAIN b2c

\* borrower = db.b2c(b2c_id);
\* not (not borrower or borrower.mfi_id != session.mfi_id)
owned_b2c(b2c_id) ==
    /\ b2c_id \in DOMAIN b2c
    /\ Some(b2c[b2c_id].mfi_id) = session.mfi_id

\* what b2c, edit_b2c and delete_b2c answer before they touch anything:
\* None when the request goes on.  args is request.args, <<>> for a request
\* without an argument: request.args(0, cast=int) then casts None and
\* raises HTTP(404), as it does for an argument that is no integer
b2c_denied(handler, args, message) ==
    IF IsNone(session.mfi_id) THEN Some(mfi_requires_login(handler))
    ELSE IF IsNone(args) THEN Some([Ran(handler) EXCEPT !.exc = "HTTP 404"])
    ELSE IF Val(args) = 0
    THEN Some(RanRedirected(handler, Some("Invalid B2C account"),
                            "dashboard"))
    ELSE IF ~owned_b2c(Val(args))
    THEN Some(RanRedirected(handler, Some(message), "dashboard"))
    ELSE None

\* mfi.b2c with the repay form: form is None for a GET and the two amounts
\* otherwise
mfi_b2c(args, form) ==
    IF ~IsNone(b2c_denied("mfi.b2c", args, "Unauthorized access"))
    THEN /\ response' = Val(b2c_denied("mfi.b2c", args,
                                       "Unauthorized access"))
         /\ UNCHANGED <<b2c, b2c_payment, b2c_communication, now, ret,
                        session, db>>
    ELSE IF IsNone(form)
    THEN /\ response' = Ran("mfi.b2c")
         /\ UNCHANGED <<b2c, b2c_payment, b2c_communication, now, ret,
                        session, db>>
    ELSE /\ b2c' = [b2c EXCEPT ![Val(args)] =
                      [amount_borrowed |-> Val(form).amount_borrowed,
                       amount_repaid_b2c_reported |-> Val(form).amount_repaid]
                      @@ @]
         /\ response' = RanRedirected(
                "mfi.b2c", Some("Repayment amounts updated"), "b2c")
         /\ UNCHANGED <<b2c_payment, b2c_communication, now, ret, session,
                        db>>

\* mfi.edit_b2c; form is None for a GET and otherwise the username and
\* password_hash fields of SQLFORM(db.b2c, borrower, fields=[...]); the
\* form is not accepted with an empty username or with the username of
\* another row (IS_NOT_EMPTY, IS_NOT_IN_DB)
edit_b2c(args, form) ==
    IF ~IsNone(b2c_denied("mfi.edit_b2c", args, "Unauthorized access"))
    THEN /\ response' = Val(b2c_denied("mfi.edit_b2c", args,
                                       "Unauthorized access"))
         /\ UNCHANGED <<b2c, b2c_payment, b2c_communication, now, ret,
                        session, db>>
    ELSE IF \/ IsNone(form)
            \/ Val(form).username = ""
            \/ FirstByUsername(b2c, Val(form).username) \notin {None, args}
    THEN /\ response' = Ran("mfi.edit_b2c")
         /\ UNCHANGED <<b2c, b2c_payment, b2c_communication, now, ret,
                        session, db>>
    ELSE /\ b2c' = [b2c EXCEPT
                      ![Val(args)].username = Val(form).username,
                      ![Val(args)].password_hash =
                          Some(stored_password(Val(form).password_hash))]
         /\ response' = RanRedirected(
                "mfi.edit_b2c", Some("B2C profile updated"), "b2c")
         /\ UNCHANGED <<b2c_payment, b2c_communication, now, ret, session,
                        db>>

\* b2c.change_password; form is None for a GET and the three fields
\* otherwise, each IS_NOT_EMPTY.  update_record runs the hook that hashes
\* the new password; the HTTP exception of the redirect that follows is
\* caught by the except clause, which flashes its error and lets the
\* handler return the form
change_password(form) ==
    IF IsNone(session.b2c_id)
    THEN /\ response' = b2c_requires_login("b2c.change_password")
         /\ UNCHANGED <<b2c, b2c_payment, b2c_communication, now, ret,
                        session, db>>
    ELSE IF Val(session.b2c_id) \notin DOMAIN b2c
    THEN /\ session' = NoSession
         /\ response' = RanRedirected("b2c.change_password", None, "login")
         /\ UNCHANGED <<b2c, b2c_payment, b2c_communication, now, ret, db>>
    ELSE IF \/ IsNone(form)
            \/ "" \in {Val(form).current_password, Val(form).new_password,
                       Val(form).confirm_password}
    THEN /\ response' = Ran("b2c.change_password")
         /\ UNCHANGED <<b2c, b2c_payment, b2c_communication, now, ret,
                        session, db>>
    ELSE LET borrower == b2c[Val(session.b2c_id)]
             \* bcrypt.checkpw(password_bytes, hash_bytes); hash_bytes is
             \* None for a row without a password
             check == IF IsNone(borrower.password_hash)
                      THEN Raises("TypeError")
                      ELSE checkpw(Val(form).current_password,
                                   Val(borrower.password_hash))
             changed == /\ check.exc = "none" /\ check.val = 1
                        /\ Val(form).new_password
                              = Val(form).confirm_password
         IN  /\ b2c' = IF changed
                       THEN [b2c EXCEPT
                               ![Val(session.b2c_id)].password_hash =
                                  Some(stored_password(
                                           Val(form).new_password))]
                       ELSE b2c
             /\ response' =
                   [Ran("b2c.change_password") EXCEPT
                      !.flash =
                          IF check.exc # "none" \/ changed
                          THEN Some("Error changing password")
                          ELSE IF check.val # 1
                          THEN Some("Current password is incorrect")
                          ELSE Some("New passwords do not match"),
                      !.session_flash =
                          IF changed
                          THEN Some("Password changed successfully")
                          ELSE None]
             /\ UNCHANGED <<b2c_payment, b2c_communication, now, ret,
                            session, db>>

\* mfi.delete_b2c: the four deletions of the handler, then the b2c row, with
\* which the rows of b2c_payment, b2c_communication and flyer_view that
\* reference what is deleted go
delete_b2c(args) ==
    IF ~IsNone(b2c_denied("mfi.delete_b2c", args,
                          "Unauthorized or account not found"))
    THEN /\ response' = Val(b2c_denied("mfi.delete_b2c", args,
                                       "Unauthorized or account not found"))
         /\ UNCHANGED <<b2c, b2c_payment, b2c_communication, now, ret,
                        session, db>>
    ELSE LET b2c_id == Val(args) IN
         /\ db' = [db EXCEPT
                     !.work_activity = {r \in @ : r.b2c_id # Some(b2c_id)},
                     !.daily_signal = {r \in @ : r.b2c_id # b2c_id},
                     !.info_flyer_recipient = {r \in @ : r.b2c_id # b2c_id},
                     !.flyer = [i \in {j \in DOMAIN @ :
                                         @[j].b2c_id # Some(b2c_id)} |-> @[i]],
                     !.flyer_view =
                         [v \in {x \in DOMAIN @ :
                                   db.flyer[x.flyer_id].b2c_id # Some(b2c_id)}
                            |-> @[v]]]
         /\ b2c' = Without(b2c, b2c_id)
         /\ b2c_payment' = cascaded(b2c_payment, b2c_id)
         /\ b2c_communication' = cascaded(b2c_communication, b2c_id)
         /\ response' = RanRedirected(
                "mfi.delete_b2c",
                Some("B2C account and all associated data deleted successfully"),
                "dashboard")
         /\ UNCHANGED <<now, ret, session>>

\* send_info_flyer_to_borrowers(mfi_id, b2c_ids, ...): one mfi_info_flyer
\* row, which names the institution, and one info_flyer_recipient row for
\* each recipient
send_info_flyer_to_borrowers(mfi_id, b2c_ids) ==
    [db EXCEPT
       !.sequence.info_flyer = @ + 1,
       !.mfi_info_flyer =
           (db.sequence.info_flyer + 1 :> [mfi_id |-> mfi_id]) @@ @,
       !.info_flyer_recipient =
           @ \cup {[info_flyer_id |-> db.sequence.info_flyer + 1,
                    b2c_id |-> b] : b \in b2c_ids}]

\* mfi.compose_info_flyer; form is None for a GET and otherwise the set of
\* recipients the form submits with a subject, a text and a response
\* type.  IS_IN_SET(..., multiple=True) takes any selection among the ids
\* of the institution's borrowers, the empty one too
compose_info_flyer(form, max) ==
    IF IsNone(session.mfi_id)
    THEN /\ response' = mfi_requires_login("mfi.compose_info_flyer")
         /\ UNCHANGED <<b2c, b2c_payment, b2c_communication, now, ret,
                        session, db>>
    ELSE IF \/ IsNone(form)
            \/ ~(Val(form) \subseteq
                    {i \in DOMAIN b2c : Some(b2c[i].mfi_id) = session.mfi_id})
    THEN /\ response' = Ran("mfi.compose_info_flyer")
         /\ UNCHANGED <<b2c, b2c_payment, b2c_communication, now, ret,
                        session, db>>
    ELSE /\ db.sequence.info_flyer < max
         /\ db' = send_info_flyer_to_borrowers(Val(session.mfi_id),
                                               Val(form))
         /\ response' = RanRedirected(
                "mfi.compose_info_flyer", Some("Message sent successfully"),
                "sent_info_flyers")
         /\ UNCHANGED <<b2c, b2c_payment, b2c_communication, now, ret,
                        session>>

-----------------------------------------------------------------------------
(* The institution's handlers on its participants                          *)
(* (controllers/responsible.py) and the participant's on signals           *)
(* (controllers/participant.py).                                           *)

\* db((responsible_id == ...) & (context_id == ...)).count()
participant_count(responsible_id, context_id) ==
    Cardinality({i \in DOMAIN db.participant :
                   /\ Some(db.participant[i].responsible_id) = responsible_id
                   /\ Some(db.participant[i].context_id) = context_id})

\* responsible.dashboard
responsible_dashboard ==
    /\ IF IsNone(session.responsible_id)
       THEN /\ response' = responsible_requires_login("responsible.dashboard")
            /\ session' = session
       ELSE IF Val(session.responsible_id) \notin DOMAIN db.responsible
       THEN /\ session' = NoSession
            /\ response' = RanRedirected("responsible.dashboard", None,
                                         "login")
       ELSE /\ response' =
                 [Ran("responsible.dashboard") EXCEPT
                    !.can_create =
                        participant_count(session.responsible_id,
                                          session.context_id)
                          < db.responsible[Val(session.responsible_id)]
                                .participant_limit]
            /\ session' = session
    /\ UNCHANGED <<b2c, b2c_payment, b2c_communication, now, ret, db>>

\* participant.dashboard
participant_dashboard ==
    /\ IF IsNone(session.participant_id)
       THEN /\ response' = participant_requires_login("participant.dashboard")
            /\ session' = session
       ELSE IF Val(session.participant_id) \notin DOMAIN db.participant
       THEN /\ session' = NoSession
            /\ response' = RanRedirected("participant.dashboard", None,
                                         "login")
       ELSE /\ response' = Ran("participant.dashboard")
            /\ session' = session
    /\ UNCHANGED <<b2c, b2c_payment, b2c_communication, now, ret, db>>

\* responsible.create_participant; form is None for a GET and the submitted
\* username and password otherwise.  No hook hashes what is written to
\* db.participant (the hooks of db.py are on mfi and b2c): password_hash
\* holds the text of the form, which is no bcrypt hash
create_participant(form, max) ==
    IF IsNone(session.responsible_id)
    THEN /\ response' =
              responsible_requires_login("responsible.create_participant")
         /\ UNCHANGED <<b2c, b2c_payment, b2c_communication, now, ret,
                        session, db>>
    ELSE IF Val(session.responsible_id) \notin DOMAIN db.responsible
    THEN /\ response' = [Ran("responsible.create_participant") EXCEPT
                           !.exc = "AttributeError"]
         /\ UNCHANGED <<b2c, b2c_payment, b2c_communication, now, ret,
                        session, db>>
    ELSE IF participant_count(session.responsible_id, session.context_id)
              >= db.responsible[Val(session.responsible_id)].participant_limit
    THEN /\ response' = RanRedirected(
                "responsible.create_participant",
                Some("Maximum participant limit reached"), "dashboard")
         /\ UNCHANGED <<b2c, b2c_payment, b2c_communication, now, ret,
                        session, db>>
    ELSE IF \/ IsNone(form)
            \/ ~IsNone(FirstByUsername(db.participant, Val(form).username))
    THEN /\ response' = Ran("responsible.create_participant")
         /\ UNCHANGED <<b2c, b2c_payment, b2c_communication, now, ret,
                        session, db>>
    ELSE /\ db.sequence.participant < max
         /\ db' = [db EXCEPT
                     !.sequence.participant = @ + 1,
                     !.participant =
                         (db.sequence.participant + 1 :>
                             ParticipantOf(
                                 Val(session.responsible_id),
                                 Val(session.context_id),
                                 Val(form).username,
                                 Some([bcrypt |-> FALSE,
                                       of |-> Val(form).password])))
                         @@ @]
         /\ response' = RanRedirected(
                "responsible.create_participant",
                Some("account created successfully"), "participant")
         /\ UNCHANGED <<b2c, b2c_payment, b2c_communication, now, ret,
                        session>>

\* participant_record = db.participant(participant_id); not (not
\* participant_record or
\*      participant_record.responsible_id != session.responsible_id)
owned_participant(participant_id) ==
    /\ participant_id \in DOMAIN db.participant
    /\ Some(db.participant[participant_id].responsible_id)
          = session.responsible_id

\* what participant and edit_participant answer before they touch
\* anything: None when the request goes on; args is request.args, whose
\* cast to int raises HTTP(404) without an argument
participant_denied(handler, args) ==
    IF IsNone(session.responsible_id)
    THEN Some(responsible_requires_login(handler))
    ELSE IF IsNone(args) THEN Some([Ran(handler) EXCEPT !.exc = "HTTP 404"])
    ELSE IF Val(args) = 0
    THEN Some(RanRedirected(handler, Some("Invalid participant account"),
                            "dashboard"))
    ELSE IF ~owned_participant(Val(args))
    THEN Some(RanRedirected(handler, Some("Unauthorized access"),
                            "dashboard"))
    ELSE None

\* responsible.participant with the metrics form: form is None for a GET
\* and the two amounts otherwise
responsible_participant(args, form) ==
    IF ~IsNone(participant_denied("responsible.participant", args))
    THEN /\ response' = Val(participant_denied("responsible.participant",
                                               args))
         /\ UNCHANGED <<b2c, b2c_payment, b2c_communication, now, ret,
                        session, db>>
    ELSE IF IsNone(form)
    THEN /\ response' = Ran("responsible.participant")
         /\ UNCHANGED <<b2c, b2c_payment, b2c_communication, now, ret,
                        session, db>>
    ELSE /\ db' = [db EXCEPT !.participant[Val(args)] =
                     [amount_borrowed |-> Val(form).amount_borrowed,
                      amount_repaid_b2c_reported |-> Val(form).amount_repaid]
                     @@ @]
         /\ response' = RanRedirected(
                "responsible.participant", Some("Metrics updated"),
                "participant")
         /\ UNCHANGED <<b2c, b2c_payment, b2c_communication, now, ret,
                        session>>

\* responsible.edit_participant; form is None for a GET and otherwise the
\* username and password_hash fields of SQLFORM(db.participant,
\* participant_record, fields=[...]); usernames are unique as in
\* create_participant, and password_hash is stored as the form has it
edit_participant(args, form) ==
    IF ~IsNone(participant_denied("responsible.edit_participant", args))
    THEN /\ response' = Val(participant_denied("responsible.edit_participant",
                                               args))
         /\ UNCHANGED <<b2c, b2c_payment, b2c_communication, now, ret,
                        session, db>>
    ELSE IF \/ IsNone(form)
            \/ Val(form).username = ""
            \/ FirstByUsername(db.participant, Val(form).username)
                  \notin {None, args}
    THEN /\ response' = Ran("responsible.edit_participant")
         /\ UNCHANGED <<b2c, b2c_payment, b2c_communication, now, ret,
                        session, db>>
    ELSE /\ db' = [db EXCEPT
                     !.participant[Val(args)].username = Val(form).username,
                     !.participant[Val(args)].password_hash =
                         Some([bcrypt |-> FALSE,
                               of |-> Val(form).password_hash])]
         /\ response' = RanRedirected(
                "responsible.edit_participant", Some("profile updated"),
                "participant")
         /\ UNCHANGED <<b2c, b2c_payment, b2c_communication, now, ret,
                        session>>

\* a variant of deletable_participant: the session is not compared
deletable_by_anyone(participant_id) ==
    participant_id \in DOMAIN db.participant

\* delete_participant: db((id == participant_id)
\*     & (responsible_id == session.responsible_id)
\*     & (context_id == session.context_id)).select().first()
deletable_participant(participant_id) ==
    /\ participant_id \in DOMAIN db.participant
    /\ Some(db.participant[participant_id].responsible_id)
          = session.responsible_id
    /\ Some(db.participant[participant_id].context_id) = session.context_id

\* responsible.delete_participant; args is request.args.  Its fourth
\* deletion selects on db.flyer.participant_id, which raises on a flyer
\* table without that column, and the request is rolled back
delete_participant(args) ==
    /\ IF IsNone(session.responsible_id)
       THEN /\ response' =
                 responsible_requires_login("responsible.delete_participant")
            /\ db' = db
       ELSE IF IsNone(args)
       THEN /\ response' = [Ran("responsible.delete_participant") EXCEPT
                              !.exc = "HTTP 404"]
            /\ db' = db
       ELSE IF Val(args) = 0
       THEN /\ response' = RanRedirected(
                   "responsible.delete_participant",
                   Some("Invalid participant account"), "dashboard")
            /\ db' = db
       ELSE IF ~deletable_participant(Val(args))
       THEN /\ response' = RanRedirected(
                   "responsible.delete_participant",
                   Some("Unauthorized or account not found"), "dashboard")
            /\ db' = db
       ELSE IF db.flyer_owner # "participant_id"
       THEN /\ response' = [Ran("responsible.delete_participant") EXCEPT
                              !.exc = "AttributeError"]
            /\ db' = db
       ELSE LET participant_id == Val(args) IN
            /\ db' = [db EXCEPT
                        !.work_activity =
                            {r \in @ : r.participant_id # Some(participant_id)},
                        !.execution_signal =
                            {r \in @ : r.participant_id # participant_id},
                        !.instruction_recipient =
                            {r \in @ : r.participant_id # participant_id},
                        !.flyer =
                            [i \in {j \in DOMAIN @ :
                                      @[j].participant_id
                                          # Some(participant_id)} |-> @[i]],
                        !.flyer_view =
                            [v \in {x \in DOMAIN @ :
                                      db.flyer[x.flyer_id].participant_id
                                          # Some(participant_id)} |-> @[v]],
                        !.participant = Without(@, participant_id)]
            /\ response' = RanRedirected(
                   "responsible.delete_participant",
                   Some("account and all associated data deleted successfully"),
                   "dashboard")
    /\ UNCHANGED <<b2c, b2c_payment, b2c_communication, now, ret, session>>

\* an instruction row, and the instruction_recipient row of one recipient
\* as it is when the instruction is sent: not read, no response
InstructionOf(responsible_id, context_id, response_template) ==
    [responsible_id |-> responsible_id, context_id |-> context_id,
     response_template |-> response_template]

RecipientOf(instruction_id, participant_id, context_id) ==
    [instruction_id |-> instruction_id, participant_id |-> participant_id,
     context_id |-> context_id, is_read |-> FALSE, read_on |-> None,
     response |-> None, responded_on |-> None]

\* send_instruction_to_participants(responsible_id, participant_ids, ...,
\* context_id): one instruction row, which names the institution, and one
\* instruction_recipient row for each recipient
send_instruction_to_participants(responsible_id, participant_ids, context_id) ==
    [db EXCEPT
       !.sequence.instruction = @ + 1,
       !.instruction =
           (db.sequence.instruction + 1
              :> InstructionOf(responsible_id, context_id, "NONE")) @@ @,
       !.instruction_recipient =
           @ \cup {RecipientOf(db.sequence.instruction + 1, p, context_id) :
                     p \in participant_ids}]

\* responsible.compose_instruction; form is None for a GET and otherwise
\* the set of recipients the form submits with a subject, a text and the
\* response type 'NONE'.  IS_IN_SET(..., multiple=True) takes any
\* selection among the ids of the institution's participants in the
\* context of the session, the empty one too
compose_instruction(form, max) ==
    /\ IF IsNone(session.responsible_id)
       THEN /\ response' =
                 responsible_requires_login("responsible.compose_instruction")
            /\ db' = db
       ELSE IF \/ IsNone(form)
               \/ ~(Val(form) \subseteq
                      {i \in DOMAIN db.participant :
                         /\ Some(db.participant[i].responsible_id)
                               = session.responsible_id
                         /\ Some(db.participant[i].context_id)
                               = session.context_id})
       THEN /\ response' = Ran("responsible.compose_instruction")
            /\ db' = db
       ELSE /\ db.sequence.instruction < max
            /\ db' = send_instruction_to_participants(
                         Val(session.responsible_id), Val(form),
                         Val(session.context_id))
            /\ response' = RanRedirected(
                   "responsible.compose_instruction",
                   Some("sent successfully"), "sent_instructions")
    /\ UNCHANGED <<b2c, b2c_payment, b2c_communication, now, ret, session>>

\* participant.create_work_activity; form is None for a GET and otherwise
\* what SQLFORM(db.work_activity) submits.  participant_id and context_id
\* are taken from the session; the participant row is not read.  The
\* flashed message is given without the label get_language puts in front
create_work_activity(form, max) ==
    /\ IF IsNone(session.participant_id)
       THEN /\ response' =
                 participant_requires_login("participant.create_work_activity")
            /\ db' = db
       ELSE IF IsNone(form)
       THEN /\ response' = Ran("participant.create_work_activity")
            /\ db' = db
       ELSE /\ db.sequence.work_activity < max
            /\ db' = [db EXCEPT
                        !.sequence.work_activity = @ + 1,
                        !.work_activity =
                            @ \cup {[id |-> db.sequence.work_activity + 1,
                                     b2c_id |-> None,
                                     participant_id |-> session.participant_id,
                                     context_id |-> Val(session.context_id),
                                     is_active |-> Val(form).is_active]}]
            /\ response' = RanRedirected(
                   "participant.create_work_activity",
                   Some("created successfully"), "work_activities")
    /\ UNCHANGED <<b2c, b2c_payment, b2c_communication, now, ret, session>>

\* participant.edit_work_activity; args is request.args, form is None for
\* a GET and otherwise what SQLFORM(db.work_activity, activity) submits,
\* the owner and the context as the row has them
edit_work_activity(args, form) ==
    /\ IF IsNone(session.participant_id)
       THEN /\ response' =
                 participant_requires_login("participant.edit_work_activity")
            /\ db' = db
       ELSE IF IsNone(args)
       THEN /\ response' = [Ran("participant.edit_work_activity") EXCEPT
                              !.exc = "HTTP 404"]
            /\ db' = db
       ELSE IF Val(args) = 0
       THEN /\ response' = RanRedirected(
                   "participant.edit_work_activity",
                   Some("Invalid activity"), "work_activities")
            /\ db' = db
       ELSE IF ~\E a \in db.work_activity :
                  /\ a.id = Val(args)
                  /\ a.participant_id = session.participant_id
       THEN /\ response' = RanRedirected(
                   "participant.edit_work_activity",
                   Some("Unauthorized access"), "work_activities")
            /\ db' = db
       ELSE IF IsNone(form)
       THEN /\ response' = Ran("participant.edit_work_activity")
            /\ db' = db
       ELSE /\ db' = [db EXCEPT
                        !.work_activity =
                            {IF a.id = Val(args)
                             THEN [a EXCEPT !.is_active = Val(form).is_active]
                             ELSE a : a \in @}]
            /\ response' = RanRedirected(
                   "participant.edit_work_activity",
                   Some("updated successfully"), "work_activities")
    /\ UNCHANGED <<b2c, b2c_payment, b2c_communication, now, ret, session>>

\* participant.create_signal; form is None for a GET and the work activity
\* and outcome otherwise.  activities are the active work activities of
\* the participant of the session in the context of the session; the
\* handler asks only that there is one, and compares neither the work
\* activity of the form with them nor the session with the participant
\* table
create_signal(form, max) ==
    LET activities == {a \in db.work_activity :
                         /\ a.participant_id = session.participant_id
                         /\ Some(a.context_id) = session.context_id
                         /\ a.is_active}
    IN
    /\ IF IsNone(session.participant_id)
       THEN /\ response' =
                 participant_requires_login("participant.create_signal")
            /\ db' = db
       ELSE IF activities = {}
       THEN /\ response' = RanRedirected(
                   "participant.create_signal",
                   Some("Please create a work activity first"),
                   "create_work_activity")
            /\ db' = db
       ELSE IF IsNone(form)
       THEN /\ response' = Ran("participant.create_signal")
            /\ db' = db
       ELSE /\ db.sequence.signal < max
            /\ db' = [db EXCEPT
                        !.sequence.signal = @ + 1,
                        !.execution_signal =
                            @ \cup {[id |-> db.sequence.signal + 1,
                                     participant_id |->
                                         Val(session.participant_id),
                                     context_id |-> Val(session.context_id),
                                     work_activity_id |->
                                         Val(form).work_activity_id,
                                     outcome |-> Val(form).outcome]}]
            /\ response' = RanRedirected(
                   "participant.create_signal", Some("recorded successfully"),
                   "signals")
    /\ UNCHANGED <<b2c, b2c_payment, b2c_communication, now, ret, session>>

\* participant.delete_work_activity; args is request.args.  It deletes the
\* work_activity row and nothing else
delete_work_activity(args) ==
    /\ IF IsNone(session.participant_id)
       THEN /\ response' =
                 participant_requires_login("participant.delete_work_activity")
            /\ db' = db
       ELSE IF IsNone(args)
       THEN /\ response' = [Ran("participant.delete_work_activity") EXCEPT
                              !.exc = "HTTP 404"]
            /\ db' = db
       ELSE IF /\ Val(args) # 0
               /\ \E a \in db.work_activity :
                     /\ a.id = Val(args)
                     /\ a.participant_id = session.participant_id
       THEN /\ db' = [db EXCEPT
                        !.work_activity = {a \in @ : a.id # Val(args)}]
            /\ response' = RanRedirected(
                   "participant.delete_work_activity", Some("deleted"),
                   "work_activities")
       ELSE /\ response' = RanRedirected(
                   "participant.delete_work_activity",
                   Some("Invalid request"), "work_activities")
            /\ db' = db
    /\ UNCHANGED <<b2c, b2c_payment, b2c_communication, now, ret, session>>

\* participant.profile; form is None for a GET and otherwise the username
\* and password_hash fields of SQLFORM(db.participant, participant_record,
\* fields=[...]), password_hash stored as the form has it.  Without the
\* row of the session the form is one that
\* inserts, and the insert of a participant without its responsible
\* entity is refused by the table
participant_profile(form) ==
    /\ UNCHANGED <<b2c, b2c_payment, b2c_communication, now, ret, session>>
    /\ IF IsNone(session.participant_id)
       THEN /\ response' = participant_requires_login("participant.profile")
            /\ db' = db
       ELSE IF \/ IsNone(form)
               \/ Val(form).username = ""
               \/ FirstByUsername(db.participant, Val(form).username)
                     \notin {None, session.participant_id}
       THEN /\ response' = Ran("participant.profile")
            /\ db' = db
       ELSE IF Val(session.participant_id) \notin DOMAIN db.participant
       THEN /\ response' = [Ran("participant.profile") EXCEPT
                              !.exc = "IntegrityError"]
            /\ db' = db
       ELSE /\ db' = [db EXCEPT
                        !.participant[Val(session.participant_id)].username =
                            Val(form).username,
                        !.participant[Val(session.participant_id)]
                            .password_hash =
                            Some([bcrypt |-> FALSE,
                                  of |-> Val(form).password_hash])]
            /\ response' = RanRedirected(
                   "participant.profile",
                   Some("Profile updated successfully"), "profile")

-----------------------------------------------------------------------------
(* The accounts of two institutions and what hangs on them.                *)

\* on file in a deployment of the mfi and b2c portals: borrower ana of
\* institution 1 and ben of institution 2, each with a work activity and a
\* daily signal
BorrowerRows ==
    [NoRows EXCEPT
       !.mfi = mfi,
       !.work_activity =
           {[id |-> 1, b2c_id |-> Some(1), participant_id |-> None,
             context_id |-> 0, is_active |-> TRUE],
            [id |-> 2, b2c_id |-> Some(2), participant_id |-> None,
             context_id |-> 0, is_active |-> TRUE]},
       !.daily_signal =
           {[id |-> 1, b2c_id |-> 1, work_activity_id |-> 1,
             outcome |-> "WORSE"],
            [id |-> 2, b2c_id |-> 2, work_activity_id |-> 2,
             outcome |-> "BETTER"]},
       !.sequence = [b2c |-> 2, participant |-> 0, signal |-> 2,
                     info_flyer |-> 0, instruction |-> 0, flyer |-> 0,
                     work_activity |-> 2]]

\* on file in a deployment of the responsible and participant portals:
\* participant pia of institution 1 and pol of institution 2, each with a
\* work activity, pol with a signal
ParticipantRows ==
    [NoRows EXCEPT
       !.responsible = responsible,
       !.participant = [p \in {1, 2} |-> LoginParticipants[p]],
       !.flyer_owner = "participant_id",
       !.work_activity =
           {[id |-> 3, b2c_id |-> None, participant_id |-> Some(1),
             context_id |-> 1, is_active |-> TRUE],
            [id |-> 4, b2c_id |-> None, participant_id |-> Some(2),
             context_id |-> 2, is_active |-> TRUE]},
       !.execution_signal =
           {[id |-> 1, participant_id |-> 2, context_id |-> 2,
             work_activity_id |-> 4, outcome |-> "AS_EXPECTED"]},
       !.sequence = [b2c |-> 0, participant |-> 2, signal |-> 1,
                     info_flyer |-> 0, instruction |-> 0, flyer |-> 0,
                     work_activity |-> 4]]

\* one deployment or the other; ana has a payment due, ben a payment made
\* and a communication
InitAccounts ==
    /\ now = 2
    /\ ret = NoCall
    /\ session = NoSession
    /\ response = NoResponse
    /\ \/ /\ db = BorrowerRows
          /\ b2c = LedgerBorrowers
          /\ b2c_payment = SetToBag({inserted_payment(
                                [b2c_id |-> 1, amount |-> 100, due_date |-> 2]),
                                    inserted_payment(
                                [b2c_id |-> 2, amount |-> 100, due_date |-> 1,
                                 paid_date |-> Some(2)])})
          /\ b2c_communication =
                SetToBag({Val(reported_communication(
                              2, [of |-> 100, text |-> FALSE]))})
       \/ /\ db = ParticipantRows
          /\ b2c = EmptyTable
          /\ b2c_payment = EmptyBag
          /\ b2c_communication = EmptyBag

\* the last ids the autoincrements give out in SpecAccounts
MaxB2cId == 3
MaxParticipantId == 3
MaxSignalId == 2
MaxInfoFlyerId == 1
MaxInstructionId == 1
MaxWorkActivityId == 5
\* most rows of b2c_communication in SpecAccounts
MaxAccountReports == 2

\* the ids the requests name: 0, the accounts on file, one created
AccountArgs == {0, 1, 2, 3}

AccountForms == {None, Some([username |-> "cy", password |-> "cy-pw"])}
AmountForms == {None, Some([amount_borrowed |-> 100, amount_repaid |-> 50])}
\* what the profile form of an account submits: the username of the
\* account own or a new one, and a new password
ProfileForms(own) ==
    {None} \cup {Some([username |-> u, password_hash |-> "new-pw"]) :
                   u \in {own, "zed"}}

\* what the form of change_password submits: the password ana was given,
\* and a new one confirmed or not
PasswordChanges ==
    {None} \cup {Some([current_password |-> "ana-pw",
                       new_password |-> "new-pw", confirm_password |-> c]) :
                   c \in {"new-pw", "new"}}

\* the requests that create and delete the accounts and their child rows
NextAccounts ==
    \/ mfi_login("mfi1", "mfi-secret")
    \/ b2c_login("ana", "ana-pw")
    \/ responsible_login("resp1", "resp-secret")
    \/ participant_login("pia", "pia-pw")
    \/ logout
    \/ \E form \in AccountForms : create_b2c(form, MaxB2cId)
    \/ \E args \in Nullable(AccountArgs) : delete_b2c(args)
    \/ \E form \in Nullable(SUBSET {1, 2}) :
         compose_info_flyer(form, MaxInfoFlyerId)
    \/ /\ BagCardinality(b2c_communication) < MaxAccountReports
       /\ \E text \in BOOLEAN :
            report_payment([amount |-> Some([of |-> 100, text |-> text]),
                            paid_date |-> 2, payment_method |-> "Cash",
                            notes |-> None])
    \/ \E form \in AccountForms : create_participant(form, MaxParticipantId)
    \/ \E args \in Nullable(AccountArgs) : delete_participant(args)
    \/ \E form \in Nullable(SUBSET {1, 2}) :
         compose_instruction(form, MaxInstructionId)
    \/ participant_dashboard
    \/ \E form \in Nullable([is_active : {TRUE}]) :
         create_work_activity(form, MaxWorkActivityId)
    \/ \E form \in Nullable([is_active : {FALSE}]),
          args \in Nullable({0, 3, 4, 5}) :
         edit_work_activity(args, form)
    \/ \E form \in
           {None} \cup {Some([work_activity_id |-> a, outcome |-> "WORSE"]) :
                          a \in {3, 4}} :
         create_signal(form, MaxSignalId)
    \/ \E args \in Nullable({0, 3, 4, 5}) : delete_work_activity(args)

SpecAccounts == InitAccounts /\ [][NextAccounts]_vars

-----------------------------------------------------------------------------
(* The institution's pages asked for when only borrowers and participants  *)
(* have logged in.                                                         *)

NextBorrowerSession ==
    \/ b2c_login("ana", "ana-pw")
    \/ participant_login("pia", "pia-pw")
    \/ logout
    \/ mfi_dashboard
    \/ \E form \in AccountForms : create_b2c(form, MaxB2cId)
    \/ \E args \in Nullable(AccountArgs), form \in AmountForms :
         mfi_b2c(args, form)
    \/ \E args \in Nullable(AccountArgs), form \in ProfileForms("ana") :
         edit_b2c(args, form)
    \/ \E args \in Nullable(AccountArgs) : delete_b2c(args)
    \/ \E form \in PasswordChanges : change_password(form)
    \/ \E form \in Nullable(SUBSET {1, 2}) :
         compose_info_flyer(form, MaxInfoFlyerId)
    \/ responsible_dashboard
    \/ \E form \in AccountForms : create_participant(form, MaxParticipantId)
    \/ \E args \in Nullable(AccountArgs), form \in AmountForms :
         responsible_participant(args, form)
    \/ \E args \in Nullable(AccountArgs), form \in ProfileForms("pia") :
         edit_participant(args, form)
    \/ \E args \in Nullable(AccountArgs) : delete_participant(args)
    \/ participant_dashboard
    \/ \E form \in ProfileForms("pia") : participant_profile(form)
    \/ \E form \in Nullable(SUBSET {1, 2}) :
         compose_instruction(form, MaxInstructionId)

SpecBorrowerSession == InitAccounts /\ [][NextBorrowerSession]_vars

-----------------------------------------------------------------------------
(* The public pages: view_flyer of b2c.py and of participant.py,           *)
(* vendor_side of fmi.py.  db.flyer_owner names the owner column the flyer *)
(* table is declared with: b2c_id as in db.py, user_id as default.py and   *)
(* fmi.py read it, or participant_id (with context_id) as participant.py   *)
(* reads it.  A handler raises where it reads a column the table lacks.    *)

\* a flyer row of the table of db.py: b2c_id is notnull
FlyerOf(b2c_id, is_public) ==
    [b2c_id |-> b2c_id, is_public |-> is_public, view_count |-> 0]

\* a flyer row of the table participant.py reads: the flyers of
\* participants have a participant_id
ParticipantFlyerOf(b2c_id, participant_id, is_public) ==
    [b2c_id |-> b2c_id, participant_id |-> participant_id,
     is_public |-> is_public, view_count |-> 0]

\* update(view_count = view_count + 1) and db.flyer_view.insert(flyer_id)
viewed(flyer_id) ==
    [db EXCEPT !.flyer[flyer_id].view_count = @ + 1,
               !.flyer_view = @ (+) SetToBag({[flyer_id |-> flyer_id]})]

\* b2c.view_flyer; flyer_id 0 stands for a request without an argument
b2c_view_flyer(flyer_id, max) ==
    /\ IF flyer_id = 0 \/ flyer_id \notin DOMAIN db.flyer
       THEN /\ response' = [Ran("b2c.view_flyer") EXCEPT !.exc = "HTTP 404"]
            /\ db' = db
       ELSE /\ db.flyer[flyer_id].view_count < max
            /\ db' = viewed(flyer_id)
            /\ response' = Ran("b2c.view_flyer")
    /\ UNCHANGED <<b2c, b2c_payment, b2c_communication, now, ret, session>>

\* a variant of published: the flyer is on file, public or not
on_file(flyer_id) == flyer_id \in DOMAIN db.flyer

\* flyer = db.flyer(flyer_id); not (not flyer or not flyer.is_public)
published(flyer_id) ==
    /\ flyer_id \in DOMAIN db.flyer
    /\ db.flyer[flyer_id].is_public

\* participant.view_flyer; args is request.args, whose cast to int raises
\* HTTP(404) without an argument.  Before the handler counts the view it
\* reads flyer.context_id, which raises on a table without that column
participant_view_flyer(args, max) ==
    /\ IF IsNone(args)
       THEN /\ response' = [Ran("participant.view_flyer") EXCEPT
                              !.exc = "HTTP 404"]
            /\ db' = db
       ELSE LET flyer_id == Val(args) IN
       IF flyer_id = 0
       THEN /\ response' = [Ran("participant.view_flyer") EXCEPT
                              !.error = Some("Flyer not found")]
            /\ db' = db
       ELSE IF ~published(flyer_id)
       THEN /\ response' = [Ran("participant.view_flyer") EXCEPT
                              !.error = Some("Flyer not found or not public")]
            /\ db' = db
       ELSE IF db.flyer_owner # "participant_id"
       THEN /\ response' = [Ran("participant.view_flyer") EXCEPT
                              !.exc = "AttributeError"]
            /\ db' = db
       ELSE /\ db.flyer[flyer_id].view_count < max
            /\ db' = viewed(flyer_id)
            /\ response' = Ran("participant.view_flyer")
    /\ UNCHANGED <<b2c, b2c_payment, b2c_communication, now, ret, session>>

\* fmi.vendor_side; for a vendor on file it selects on db.flyer.user_id,
\* which raises on a table without that column
vendor_side(username) ==
    /\ response' =
          IF \A v \in db.vendor_account : v.username # username
          THEN RanRedirected("fmi.vendor_side", Some("Vendor not found"),
                             "index")
          ELSE IF db.flyer_owner # "user_id"
          THEN [Ran("fmi.vendor_side") EXCEPT !.exc = "AttributeError"]
          ELSE Ran("fmi.vendor_side")
    /\ UNCHANGED <<b2c, b2c_payment, b2c_communication, now, ret, session,
                   db>>

\* on file: a vendor and three flyers, two of them private.  In the table
\* of db.py they are flyers of the borrowers ana and ben; in the table
\* participant.py reads, a flyer of borrower ana and two of participant pia
InitFlyer ==
    /\ b2c = LedgerBorrowers
    /\ b2c_payment = EmptyBag
    /\ b2c_communication = EmptyBag
    /\ now = 0
    /\ ret = NoCall
    /\ session = NoSession
    /\ response = NoResponse
    /\ \E owner \in {"b2c_id", "participant_id"} :
         db = [NoRows EXCEPT
                 !.mfi = mfi,
                 !.responsible = responsible,
                 !.participant = [p \in {1, 2} |-> LoginParticipants[p]],
                 !.vendor_account =
                     {[username |-> "vera", vendor_user_id |-> 1]},
                 !.flyer_owner = owner,
                 !.flyer =
                   IF owner = "b2c_id"
                   THEN (1 :> FlyerOf(Some(1), FALSE))
                        @@ (2 :> FlyerOf(Some(2), TRUE))
                        @@ (3 :> FlyerOf(Some(2), FALSE))
                   ELSE (1 :> ParticipantFlyerOf(Some(1), None, FALSE))
                        @@ (2 :> ParticipantFlyerOf(Some(2), Some(1), TRUE))
                        @@ (3 :> ParticipantFlyerOf(Some(2), Some(1), FALSE)),
                 !.sequence.flyer = 3]

\* most views of one flyer in SpecFlyer
MaxViews == 2



-----------------------------------------------------------------------------
(* The flyer editors: save and delete of b2c.py and of default.py.         *)
(* db.flyer_owner names the owner column the flyer table is declared with: *)
(* b2c_id, which b2c.py reads, or user_id, which default.py reads.  Either *)
(* controller on the table of the other raises where it reads the column.  *)

\* a flyer as the editors see it
EditedFlyer(b2c_id, user_id, title, thecontent) ==
    [b2c_id |-> b2c_id, user_id |-> user_id, title |-> title,
     thecontent |-> thecontent, is_public |-> TRUE, view_count |-> 0]

\* the login of web2py's auth behind default.user: auth.user_id is set
auth_login(user_id) ==
    /\ session' = [session EXCEPT !.user_id = Some(user_id)]
    /\ response' = Answer("default.user")
    /\ UNCHANGED <<b2c, b2c_payment, b2c_communication, now, ret, db>>

\* db(db.flyer.id == flyer_id).delete(); the flyer_view rows reference the
\* flyer and go with it
flyer_deleted(flyer_id) ==
    [db EXCEPT !.flyer = Without(@, flyer_id),
               !.flyer_view = [r \in {x \in DOMAIN @ : x.flyer_id # flyer_id}
                                 |-> @[r]]]

\* flyer.update_record(title=title, thecontent=thecontent)
flyer_updated(flyer_id, title, thecontent) ==
    [db EXCEPT !.flyer[flyer_id].title = title,
               !.flyer[flyer_id].thecontent = thecontent]

\* db.flyer.insert(<owner column>=owner, title=title, thecontent=thecontent)
flyer_inserted(b2c_id, user_id, title, thecontent) ==
    [db EXCEPT !.sequence.flyer = @ + 1,
               !.flyer = (db.sequence.flyer + 1
                            :> EditedFlyer(b2c_id, user_id, title, thecontent))
                         @@ @]

\* a variant of own_flyer: the flyer is on file, whoever owns it
any_flyer(flyer_id) == flyer_id \in DOMAIN db.flyer

\* b2c.save, b2c.delete: flyer and flyer.b2c_id == session.b2c_id
own_flyer(flyer_id) ==
    /\ flyer_id \in DOMAIN db.flyer
    /\ db.flyer[flyer_id].b2c_id = session.b2c_id

\* b2c.save; flyer_id 0 stands for a form without an id
b2c_save(flyer_id, form, max) ==
    IF IsNone(session.b2c_id)
    THEN /\ response' = b2c_requires_login("b2c.save")
         /\ UNCHANGED <<b2c, b2c_payment, b2c_communication, now, ret,
                        session, db>>
    ELSE IF Val(session.b2c_id) \notin DOMAIN b2c
    THEN /\ session' = NoSession
         /\ response' = RanRedirected("b2c.save", None, "login")
         /\ UNCHANGED <<b2c, b2c_payment, b2c_communication, now, ret, db>>
    ELSE
      /\ UNCHANGED <<b2c, b2c_payment, b2c_communication, now, ret, session>>
      /\ IF form.title = ""
         THEN /\ response' = RanRedirected("b2c.save",
                                 Some("Title is required"), "editor")
              /\ db' = db
         ELSE IF form.thecontent = ""
         THEN /\ response' = RanRedirected("b2c.save",
                                 Some("Content is required"), "editor")
              /\ db' = db
         ELSE IF flyer_id # 0
         THEN IF flyer_id \in DOMAIN db.flyer /\ db.flyer_owner # "b2c_id"
              THEN /\ response' = [Ran("b2c.save") EXCEPT
                                     !.exc = "AttributeError"]
                   /\ db' = db
              ELSE IF own_flyer(flyer_id)
              THEN /\ db' = flyer_updated(flyer_id, form.title,
                                          form.thecontent)
                   /\ response' = RanRedirected("b2c.save",
                          Some("Flyer updated successfully"), "editor")
              ELSE /\ response' = RanRedirected("b2c.save",
                          Some("Flyer not found or access denied"), "editor")
                   /\ db' = db
         ELSE IF db.flyer_owner # "b2c_id"
         THEN /\ response' = RanRedirected("b2c.save",
                                 Some("Database error"), "editor")
              /\ db' = db
         ELSE /\ db.sequence.flyer < max
              /\ db' = flyer_inserted(session.b2c_id, None, form.title,
                                      form.thecontent)
              /\ response' = RanRedirected("b2c.save",
                                 Some("Database error"), "editor")

\* b2c.delete
b2c_delete(flyer_id) ==
    /\ UNCHANGED <<b2c, b2c_payment, b2c_communication, now, ret, session>>
    /\ IF IsNone(session.b2c_id)
       THEN /\ response' = b2c_requires_login("b2c.delete")
            /\ db' = db
       ELSE IF flyer_id = 0
       THEN /\ response' = RanRedirected("b2c.delete",
                               Some("No flyer specified"), "editor")
            /\ db' = db
       ELSE IF flyer_id \notin DOMAIN db.flyer
       THEN /\ response' = RanRedirected("b2c.delete",
                               Some("Flyer not found"), "editor")
            /\ db' = db
       ELSE IF db.flyer_owner # "b2c_id"
       THEN /\ response' = [Ran("b2c.delete") EXCEPT !.exc = "AttributeError"]
            /\ db' = db
       ELSE IF ~own_flyer(flyer_id)
       THEN /\ response' = RanRedirected("b2c.delete",
                               Some("Cannot delete this flyer"), "editor")
            /\ db' = db
       ELSE /\ db' = flyer_deleted(flyer_id)
            /\ response' = RanRedirected("b2c.delete",
                               Some("Flyer deleted successfully"), "editor")

\* default.save, default.delete: flyer and flyer.user_id == auth.user_id
own_user_flyer(flyer_id) ==
    /\ flyer_id \in DOMAIN db.flyer
    /\ db.flyer[flyer_id].user_id = session.user_id

\* default.save.  Its redirects inside the try are caught by its
\* except Exception, which rolls back what is not committed and redirects
\* to the editor with an error message
default_save(flyer_id, form, max) ==
    /\ UNCHANGED <<b2c, b2c_payment, b2c_communication, now, ret, session>>
    /\ IF IsNone(session.user_id)
       THEN /\ response' = Redirected("default.save", None, "user/login")
            /\ db' = db
       ELSE IF form.thecontent = ""
       THEN /\ response' = RanRedirected("default.save",
                               Some("Content cannot be empty"), "editor")
            /\ db' = db
       ELSE
         \E title \in {IF form.title = "" THEN "Untitled Flyer"
                       ELSE form.title} :
         /\ response' = RanRedirected("default.save", Some("Error"), "editor")
         /\ IF flyer_id # 0
            THEN IF flyer_id \in DOMAIN db.flyer /\ db.flyer_owner # "user_id"
                 THEN db' = db
                 ELSE IF own_user_flyer(flyer_id)
                 THEN db' = flyer_updated(flyer_id, title, form.thecontent)
                 ELSE db' = db
            ELSE IF db.flyer_owner # "user_id"
            THEN db' = db
            ELSE /\ db.sequence.flyer < max
                 /\ db' = flyer_inserted(None, session.user_id, title,
                                         form.thecontent)

\* default.delete
default_delete(flyer_id) ==
    /\ UNCHANGED <<b2c, b2c_payment, b2c_communication, now, ret, session>>
    /\ IF IsNone(session.user_id)
       THEN /\ response' = Redirected("default.delete", None, "user/login")
            /\ db' = db
       ELSE IF flyer_id = 0
       THEN /\ response' = RanRedirected("default.delete",
                               Some("No flyer specified"), "editor")
            /\ db' = db
       ELSE IF flyer_id \notin DOMAIN db.flyer
       THEN /\ response' = RanRedirected("default.delete",
                               Some("Flyer not found"), "editor")
            /\ db' = db
       ELSE IF db.flyer_owner # "user_id"
       THEN /\ response' = RanRedirected("default.delete",
                               Some("Error"), "editor")
            /\ db' = db
       ELSE IF ~own_user_flyer(flyer_id)
       THEN /\ response' = RanRedirected("default.delete",
                               Some("Cannot delete this flyer"), "editor")
            /\ db' = db
       ELSE /\ db' = flyer_deleted(flyer_id)
            /\ response' = RanRedirected("default.delete",
                               Some("Flyer deleted"), "editor")

\* on file: a flyer of ana and one of ben in the table of db.py, or a flyer
\* of user 1 and one of user 2 in a table declared with user_id
InitEditors ==
    /\ b2c = LedgerBorrowers
    /\ b2c_payment = EmptyBag
    /\ b2c_communication = EmptyBag
    /\ now = 0
    /\ ret = NoCall
    /\ session = NoSession
    /\ response = NoResponse
    /\ \E owner \in {"b2c_id", "user_id"} :
         db = [NoRows EXCEPT
                 !.mfi = mfi,
                 !.flyer_owner = owner,
                 !.flyer =
                   IF owner = "b2c_id"
                   THEN (1 :> EditedFlyer(Some(1), None, "old", "old text"))
                        @@ (2 :> EditedFlyer(Some(2), None, "old", "old text"))
                   ELSE (1 :> EditedFlyer(None, Some(1), "old", "old text"))
                        @@ (2 :> EditedFlyer(None, Some(2), "old", "old text")),
                 !.sequence.flyer = 2]

\* the last flyer id given out in SpecEditors
MaxFlyerId == 3


\* what the editor's form submits
EditorForms ==
    {[title |-> "new", thecontent |-> "new text"],
     [title |-> "", thecontent |-> "new text"],
     [title |-> "new", thecontent |-> ""]}

NextEditors ==
    \/ b2c_login("ana", "ana-pw")
    \/ b2c_login("ben", "ben-pw")
    \/ \E user_id \in {1, 2} : auth_login(user_id)
    \/ logout
    \/ \E flyer_id \in 0..3 : \E form \in EditorForms :
         b2c_save(flyer_id, form, MaxFlyerId)
    \/ \E flyer_id \in 0..3 : b2c_delete(flyer_id)
    \/ \E flyer_id \in 0..3 : \E form \in EditorForms :
         default_save(flyer_id, form, MaxFlyerId)
    \/ \E flyer_id \in 0..3 : default_delete(flyer_id)

SpecEditors == InitEditors /\ [][NextEditors]_vars

-----------------------------------------------------------------------------
(* The pages of the institution portal that only read (controllers/mfi.py).*)

\* mfi.sent_info_flyers
sent_info_flyers ==
    /\ response' = IF IsNone(session.mfi_id)
                   THEN mfi_requires_login("mfi.sent_info_flyers")
                   ELSE Ran("mfi.sent_info_flyers")
    /\ UNCHANGED <<b2c, b2c_payment, b2c_communication, now, ret, session,
                   db>>

\* mfi.info_flyer_details; args is request.args: it loads the
\* mfi_info_flyer row and compares its mfi_id with the session
info_flyer_details(args) ==
    /\ response' =
          IF IsNone(session.mfi_id)
          THEN mfi_requires_login("mfi.info_flyer_details")
          ELSE IF IsNone(args)
          THEN [Ran("mfi.info_flyer_details") EXCEPT !.exc = "HTTP 404"]
          ELSE IF Val(args) = 0
          THEN RanRedirected("mfi.info_flyer_details",
                             Some("Invalid info_flyer"), "sent_info_flyers")
          ELSE IF \/ Val(args) \notin DOMAIN db.mfi_info_flyer
                  \/ Some(db.mfi_info_flyer[Val(args)].mfi_id)
                        # session.mfi_id
          THEN RanRedirected("mfi.info_flyer_details",
                             Some("info_flyer not found"), "sent_info_flyers")
          ELSE Ran("mfi.info_flyer_details")
    /\ UNCHANGED <<b2c, b2c_payment, b2c_communication, now, ret, session,
                   db>>

\* mfi.signals_overview: the function has no decorator, its query runs
\* whatever the session holds
mfi_signals_overview ==
    /\ response' = Ran("mfi.signals_overview")
    /\ UNCHANGED <<b2c, b2c_payment, b2c_communication, now, ret, session,
                   db>>

\* mfi.help
mfi_help ==
    /\ response' = IF IsNone(session.mfi_id)
                   THEN mfi_requires_login("mfi.help")
                   ELSE Ran("mfi.help")
    /\ UNCHANGED <<b2c, b2c_payment, b2c_communication, now, ret, session,
                   db>>

\* the requests of the institution portals of mfi.py and responsible.py
NextInstitution ==
    \/ mfi_login("mfi1", "mfi-secret")
    \/ logout
    \/ mfi_dashboard
    \/ \E form \in AccountForms : create_b2c(form, MaxB2cId)
    \/ \E form \in Nullable(SUBSET {1, 2}) :
         compose_info_flyer(form, MaxInfoFlyerId)
    \/ sent_info_flyers
    \/ \E args \in Nullable({0, 1, 2}) : info_flyer_details(args)
    \/ \E args \in Nullable(AccountArgs), form \in AmountForms :
         mfi_b2c(args, form)
    \/ mfi_signals_overview
    \/ \E args \in Nullable(AccountArgs), form \in ProfileForms("ana") :
         edit_b2c(args, form)
    \/ \E args \in Nullable(AccountArgs) : delete_b2c(args)
    \/ \E form \in PasswordChanges : change_password(form)
    \/ mfi_help
    \/ responsible_login("resp1", "resp-secret")
    \/ responsible_dashboard
    \/ \E form \in AccountForms : create_participant(form, MaxParticipantId)
    \/ \E args \in Nullable(AccountArgs), form \in AmountForms :
         responsible_participant(args, form)
    \/ \E args \in Nullable(AccountArgs), form \in ProfileForms("pia") :
         edit_participant(args, form)
    \/ \E args \in Nullable(AccountArgs) : delete_participant(args)

SpecInstitution == InitAccounts /\ [][NextInstitution]_vars

-----------------------------------------------------------------------------
(* The flyers of participants: create_flyer, edit_flyer and delete_flyer   *)
(* of participant.py.  Each reads the column participant_id and raises on  *)
(* a flyer table declared without it.                                      *)

\* participant.create_flyer; form is None for a GET, and holds the fields
\* SQLFORM(db.flyer) leaves writable otherwise.  b2c_id is declared
\* 'reference b2c', notnull=True: a form is accepted only with the id of a
\* b2c row on file
participant_create_flyer(form, max) ==
    /\ UNCHANGED <<b2c, b2c_payment, b2c_communication, now, ret, session>>
    /\ IF IsNone(session.participant_id)
       THEN /\ response' =
                 participant_requires_login("participant.create_flyer")
            /\ db' = db
       ELSE IF db.flyer_owner # "participant_id"
       THEN /\ response' = [Ran("participant.create_flyer") EXCEPT
                              !.exc = "AttributeError"]
            /\ db' = db
       ELSE IF \/ IsNone(form)
               \/ IsNone(Val(form).b2c_id)
               \/ Val(Val(form).b2c_id) \notin DOMAIN b2c
       THEN /\ response' = Ran("participant.create_flyer")
            /\ db' = db
       ELSE /\ db.sequence.flyer < max
            /\ db' = [db EXCEPT
                        !.sequence.flyer = @ + 1,
                        !.flyer = (db.sequence.flyer + 1
                                     :> ParticipantFlyerOf(
                                            Val(form).b2c_id,
                                            session.participant_id,
                                            Val(form).is_public))
                                  @@ @]
            /\ response' = RanRedirected(
                   "participant.create_flyer",
                   Some("Flyer created successfully"), "flyers")

\* participant.edit_flyer; args is request.args, form is None for a GET
participant_edit_flyer(args, form) ==
    /\ UNCHANGED <<b2c, b2c_payment, b2c_communication, now, ret, session>>
    /\ IF IsNone(session.participant_id)
       THEN /\ response' =
                 participant_requires_login("participant.edit_flyer")
            /\ db' = db
       ELSE IF IsNone(args)
       THEN /\ response' = [Ran("participant.edit_flyer") EXCEPT
                              !.exc = "HTTP 404"]
            /\ db' = db
       ELSE LET flyer_id == Val(args) IN
       IF flyer_id = 0
       THEN /\ response' = RanRedirected("participant.edit_flyer",
                                         Some("Invalid flyer"), "flyers")
            /\ db' = db
       ELSE IF flyer_id \notin DOMAIN db.flyer
       THEN /\ response' = RanRedirected(
                   "participant.edit_flyer",
                   Some("Unauthorized access"), "flyers")
            /\ db' = db
       ELSE IF db.flyer_owner # "participant_id"
       THEN /\ response' = [Ran("participant.edit_flyer") EXCEPT
                              !.exc = "AttributeError"]
            /\ db' = db
       ELSE IF db.flyer[flyer_id].participant_id # session.participant_id
       THEN /\ response' = RanRedirected(
                   "participant.edit_flyer",
                   Some("Unauthorized access"), "flyers")
            /\ db' = db
       ELSE IF \/ IsNone(form)
               \/ IsNone(Val(form).b2c_id)
               \/ Val(Val(form).b2c_id) \notin DOMAIN b2c
       THEN /\ response' = Ran("participant.edit_flyer")
            /\ db' = db
       ELSE /\ db' = [db EXCEPT !.flyer[flyer_id].b2c_id = Val(form).b2c_id,
                                !.flyer[flyer_id].is_public =
                                    Val(form).is_public]
            /\ response' = RanRedirected(
                   "participant.edit_flyer",
                   Some("Flyer updated successfully"), "flyers")

\* participant.delete_flyer; args is request.args
participant_delete_flyer(args) ==
    /\ UNCHANGED <<b2c, b2c_payment, b2c_communication, now, ret, session>>
    /\ IF IsNone(session.participant_id)
       THEN /\ response' =
                 participant_requires_login("participant.delete_flyer")
            /\ db' = db
       ELSE IF IsNone(args)
       THEN /\ response' = [Ran("participant.delete_flyer") EXCEPT
                              !.exc = "HTTP 404"]
            /\ db' = db
       ELSE LET flyer_id == Val(args) IN
       IF flyer_id = 0 \/ flyer_id \notin DOMAIN db.flyer
       THEN /\ response' = RanRedirected("participant.delete_flyer",
                                         Some("Invalid request"), "flyers")
            /\ db' = db
       ELSE IF db.flyer_owner # "participant_id"
       THEN /\ response' = [Ran("participant.delete_flyer") EXCEPT
                              !.exc = "AttributeError"]
            /\ db' = db
       ELSE IF db.flyer[flyer_id].participant_id # session.participant_id
       THEN /\ response' = RanRedirected("participant.delete_flyer",
                                         Some("Invalid request"), "flyers")
            /\ db' = db
       ELSE /\ db' = flyer_deleted(flyer_id)
            /\ response' = RanRedirected("participant.delete_flyer",
                                         Some("Flyer deleted"), "flyers")

\* default.view_flyer: it counts the view on the flyer and inserts no
\* flyer_view row
default_view_flyer(flyer_id, max) ==
    /\ IF flyer_id = 0 \/ ~published(flyer_id)
       THEN /\ response' = [Ran("default.view_flyer") EXCEPT
                              !.exc = "HTTP 404"]
            /\ db' = db
       ELSE /\ db.flyer[flyer_id].view_count < max
            /\ db' = [db EXCEPT !.flyer[flyer_id].view_count = @ + 1]
            /\ response' = Ran("default.view_flyer")
    /\ UNCHANGED <<b2c, b2c_payment, b2c_communication, now, ret, session>>

\* the last flyer id given out in SpecFlyer
MaxViewedFlyerId == 4

\* the public pages, and the requests of participant pia for her flyers
\* with what her flyer form submits
NextFlyer ==
    \/ \E flyer_id \in 0..4 : b2c_view_flyer(flyer_id, MaxViews)
    \/ \E args \in Nullable(0..4) : participant_view_flyer(args, MaxViews)
    \/ \E flyer_id \in 0..4 : default_view_flyer(flyer_id, MaxViews)
    \/ \E username \in {"vera", "nobody"} : vendor_side(username)
    \/ participant_login("pia", "pia-pw")
    \/ \E form \in {None, Some([b2c_id |-> None, is_public |-> TRUE]),
                     Some([b2c_id |-> Some(1), is_public |-> FALSE])} :
         \/ participant_create_flyer(form, MaxViewedFlyerId)
         \/ \E args \in Nullable(0..4) :
              participant_edit_flyer(args, form)
    \/ \E args \in Nullable(0..4) : participant_delete_flyer(args)

SpecFlyer == InitFlyer /\ [][NextFlyer]_vars

-----------------------------------------------------------------------------
(* Sessions that end, and sessions whose borrower is gone.                 *)

\* b2c.dashboard
b2c_dashboard ==
    /\ IF IsNone(session.b2c_id)
       THEN /\ response' = b2c_requires_login("b2c.dashboard")
            /\ session' = session
       ELSE IF Val(session.b2c_id) \notin DOMAIN b2c
       THEN /\ session' = NoSession
            /\ response' = RanRedirected("b2c.dashboard", None, "login")
       ELSE /\ response' = Ran("b2c.dashboard")
            /\ session' = session
    /\ UNCHANGED <<b2c, b2c_payment, b2c_communication, now, ret, db>>

\* b2c.editor: it reads the flyers of session.b2c_id and never the b2c row
b2c_editor(flyer_id) ==
    /\ response' =
          IF IsNone(session.b2c_id) THEN b2c_requires_login("b2c.editor")
          ELSE IF flyer_id # 0 /\ ~own_flyer(flyer_id)
          THEN RanRedirected("b2c.editor",
                             Some("Flyer not found or access denied"),
                             "editor")
          ELSE Ran("b2c.editor")
    /\ UNCHANGED <<b2c, b2c_payment, b2c_communication, now, ret, session,
                   db>>

\* b2c.my_status: after calculate_traffic_light_status it selects the six
\* latest payments again and evaluates p.days_late <= 0 on each, which
\* raises TypeError on a row without days_late
b2c_my_status ==
    /\ IF IsNone(session.b2c_id)
       THEN /\ response' = b2c_requires_login("b2c.my_status")
            /\ session' = session
       ELSE IF Val(session.b2c_id) \notin DOMAIN b2c
       THEN /\ session' = NoSession
            /\ response' = RanRedirected("b2c.my_status", None, "login")
       ELSE /\ session' = session
            /\ \E payments \in last_payments(Val(session.b2c_id)) :
               \E comms \in last_contacts(Val(session.b2c_id)) :
               \E recent_payments \in last_payments(Val(session.b2c_id)) :
                 LET r == calculate_traffic_light_status(
                              Val(session.b2c_id), payments, comms)
                 IN  response' =
                        IF r.exc # "none"
                        THEN [Ran("b2c.my_status") EXCEPT !.exc = r.exc]
                        ELSE IF \E p \in DOMAIN recent_payments :
                                   IsNone(p.days_late)
                        THEN [Ran("b2c.my_status") EXCEPT
                                !.exc = "TypeError"]
                        ELSE Ran("b2c.my_status")
    /\ UNCHANGED <<b2c, b2c_payment, b2c_communication, now, ret, db>>

\* b2c.profile; form is None for a GET.  Of the fields of the form the
\* model keeps real_name, which requires IS_NOT_EMPTY()
b2c_profile(form) ==
    /\ IF IsNone(session.b2c_id)
       THEN /\ response' = b2c_requires_login("b2c.profile")
            /\ UNCHANGED <<session, b2c>>
       ELSE IF Val(session.b2c_id) \notin DOMAIN b2c
       THEN /\ session' = NoSession
            /\ response' = RanRedirected("b2c.profile", None, "login")
            /\ b2c' = b2c
       ELSE IF IsNone(form)
       THEN /\ response' = Ran("b2c.profile")
            /\ UNCHANGED <<session, b2c>>
       ELSE IF Val(form).real_name = ""
       THEN /\ response' = [Ran("b2c.profile") EXCEPT
                              !.flash = Some("Please correct the errors")]
            /\ UNCHANGED <<session, b2c>>
       ELSE /\ b2c' = [b2c EXCEPT ![Val(session.b2c_id)].real_name =
                                     Val(form).real_name]
            /\ response' = RanRedirected(
                   "b2c.profile", Some("Profile updated successfully"),
                   "profile")
            /\ session' = session
    /\ UNCHANGED <<b2c_payment, b2c_communication, now, ret, db>>

\* b2c.finances: it reads the borrower, the payments and the timeline
b2c_finances ==
    /\ IF IsNone(session.b2c_id)
       THEN /\ response' = b2c_requires_login("b2c.finances")
            /\ session' = session
       ELSE IF Val(session.b2c_id) \notin DOMAIN b2c
       THEN /\ session' = NoSession
            /\ response' = RanRedirected("b2c.finances", None, "login")
       ELSE /\ response' = Ran("b2c.finances")
            /\ session' = session
    /\ UNCHANGED <<b2c, b2c_payment, b2c_communication, now, ret, db>>

\* b2c.timeline: it reads the borrower and the timeline
b2c_timeline ==
    /\ IF IsNone(session.b2c_id)
       THEN /\ response' = b2c_requires_login("b2c.timeline")
            /\ session' = session
       ELSE IF Val(session.b2c_id) \notin DOMAIN b2c
       THEN /\ session' = NoSession
            /\ response' = RanRedirected("b2c.timeline", None, "login")
       ELSE /\ response' = Ran("b2c.timeline")
            /\ session' = session
    /\ UNCHANGED <<b2c, b2c_payment, b2c_communication, now, ret, db>>

NextSessions ==
    \/ b2c_login("ana", "ana-pw")
    \/ mfi_login("mfi1", "mfi-secret")
    \/ logout
    \/ mfi_dashboard
    \/ \E args \in Nullable(AccountArgs) : delete_b2c(args)
    \/ b2c_dashboard
    \/ b2c_my_status
    \/ \E form \in Nullable([real_name : {"", "Ana A."}]) : b2c_profile(form)
    \/ b2c_finances
    \/ b2c_timeline
    \/ \E form \in PasswordChanges : change_password(form)
    \/ /\ BagCardinality(b2c_communication) < MaxAccountReports
       /\ \E form \in ReportForms : report_payment(form)
    \/ \E flyer_id \in 0..3 : b2c_editor(flyer_id)
    \/ \E flyer_id \in 0..3 : \E form \in EditorForms :
         b2c_save(flyer_id, form, MaxFlyerId)
    \/ \E flyer_id \in 0..3 : b2c_delete(flyer_id)

SpecSessions == InitAccounts /\ [][NextSessions]_vars

-----------------------------------------------------------------------------
(* The participant's inbox: participant.read_instruction.                  *)

\* a variant of answerable: a stored response does not close the form
answerable_again(response_template, recipient) ==
    response_template # "NONE"

\* instruction.response_template != 'NONE' and not recipient.response
answerable(response_template, recipient) ==
    response_template # "NONE" /\ IsNone(recipient.response)

\* response_form.process(formname='response').accepted: the checkbox form
\* takes any submission, the others validate the response field
response_accepted(response_template, form) ==
    CASE response_template = "CHECKBOX_READ" -> TRUE
      [] response_template = "ACCEPT_DECLINE" ->
            form.response \in {"ACCEPT", "DECLINE"}
      [] response_template = "TEXT_RESPONSE" -> form.response # ""
      [] OTHER -> FALSE

\* str(vars.get('confirm') or vars.get('response')): the checkbox form has
\* no response field, the others no confirm field
response_value(response_template, form) ==
    IF response_template = "CHECKBOX_READ"
    THEN IF form.confirm THEN "True" ELSE "None"
    ELSE form.response

\* participant.read_instruction; args is request.args, form is None for a
\* GET.  Without the instruction row, instruction.response_template raises
\* and the request is rolled back
read_instruction(args, form) ==
    /\ UNCHANGED <<b2c, b2c_payment, b2c_communication, now, ret, session>>
    /\ IF IsNone(session.participant_id)
       THEN /\ response' =
                 participant_requires_login("participant.read_instruction")
            /\ db' = db
       ELSE IF IsNone(args)
       THEN /\ response' = [Ran("participant.read_instruction") EXCEPT
                              !.exc = "HTTP 404"]
            /\ db' = db
       ELSE LET instruction_id == Val(args) IN
       IF instruction_id = 0
       THEN /\ response' = RanRedirected("participant.read_instruction",
                               Some("Invalid instruction"), "instructions")
            /\ db' = db
       ELSE
         LET found == {r \in db.instruction_recipient :
                         /\ r.instruction_id = instruction_id
                         /\ Some(r.participant_id) = session.participant_id
                         /\ Some(r.context_id) = session.context_id}
         IN  IF found = {}
             THEN /\ response' = RanRedirected(
                         "participant.read_instruction",
                         Some("Instruction not found"), "instructions")
                  /\ db' = db
             ELSE IF instruction_id \notin DOMAIN db.instruction
             THEN /\ response' = [Ran("participant.read_instruction")
                                    EXCEPT !.exc = "AttributeError"]
                  /\ db' = db
             ELSE
               \E recipient \in found :
               LET template == db.instruction[instruction_id]
                                   .response_template
                   \* if not recipient.is_read: recipient.update_record(
                   \*     is_read=True, read_on=datetime.now())
                   seen == IF recipient.is_read THEN recipient
                           ELSE [recipient EXCEPT !.is_read = TRUE,
                                                  !.read_on = Some(now)]
               IN  IF /\ answerable(template, seen)
                      /\ ~IsNone(form)
                      /\ response_accepted(template, Val(form))
                   THEN /\ db' = [db EXCEPT !.instruction_recipient =
                                    (@ \ {recipient}) \cup
                                    {[seen EXCEPT
                                        !.response = Some(response_value(
                                                        template, Val(form))),
                                        !.responded_on = Some(now)]}]
                        /\ response' = RanRedirected(
                               "participant.read_instruction",
                               Some("Response submitted"), "read_instruction")
                   ELSE /\ db' = [db EXCEPT !.instruction_recipient =
                                    (@ \ {recipient}) \cup {seen}]
                        /\ response' = Ran("participant.read_instruction")

\* on file: institution 1 sent instruction 1 (no response asked) and
\* instruction 2 (accept or decline) to pia and instruction 3 (checkbox)
\* to pat
InitInbox ==
    /\ b2c = EmptyTable
    /\ b2c_payment = EmptyBag
    /\ b2c_communication = EmptyBag
    /\ now = 0
    /\ ret = NoCall
    /\ session = NoSession
    /\ response = NoResponse
    /\ db = [NoRows EXCEPT
               !.responsible = responsible,
               !.participant = LoginParticipants,
               !.instruction = (1 :> InstructionOf(1, 1, "NONE"))
                               @@ (2 :> InstructionOf(1, 1, "ACCEPT_DECLINE"))
                               @@ (3 :> InstructionOf(1, 1, "CHECKBOX_READ")),
               !.instruction_recipient =
                   {RecipientOf(1, 1, 1), RecipientOf(2, 1, 1), RecipientOf(3, 3, 1)},
               !.sequence.instruction = 3,
               !.sequence.participant = 3]

\* the last day of SpecInbox
MaxInboxDay == 1

\* the ids the requests name: none, the instructions on file, one not

\* what the response form submits
ResponseForms ==
    {None,
     Some([confirm |-> TRUE, response |-> ""]),
     Some([confirm |-> FALSE, response |-> "ACCEPT"]),
     Some([confirm |-> FALSE, response |-> "DECLINE"])}

NextInbox ==
    \/ participant_login("pia", "pia-pw")
    \/ participant_login("pat", "pat-pw")
    \/ logout
    \* a day passes
    \/ /\ now < MaxInboxDay
       /\ now' = now + 1
       /\ UNCHANGED <<b2c, b2c_payment, b2c_communication, ret>>
       /\ UNCHANGED portal
    \/ \E args \in Nullable({0, 1, 2, 3, 4}) : \E form \in ResponseForms :
         read_instruction(args, form)

SpecInbox == InitInbox /\ [][NextInbox]_vars


-----------------------------------------------------------------------------
(* What the claims speak of, stated on the tables themselves.              *)

\* the rows of bag B that satisfy P
Rows(B, P(_)) == [r \in {x \in DOMAIN B : P(x)} |-> B[r]]

PaymentsOnFile(b) == Rows(b2c_payment, LAMBDA p : p.b2c_id = b)

ContactsOnFile(b) ==
    Rows(b2c_communication,
         LAMBDA c : c.b2c_id = b /\ c.initiated_by = "MFI")

\* T holds min(n, size of B) rows of B, none older than a row of B left out
IsMostRecent(T, B, key(_), n) ==
    /\ T \sqsubseteq B
    /\ BagCardinality(T) = (IF n <= BagCardinality(B) THEN n
                            ELSE BagCardinality(B))
    /\ \A s \in DOMAIN (B (-) T) : \A r \in DOMAIN T : key(s) <= key(r)

\* the rows of T with a days-late value of at most 0
OnTime(T) ==
    BagCardinality(Rows(T, LAMBDA p : /\ ~IsNone(p.days_late)
                                      /\ Val(p.days_late) <= 0))

SumLate(T) ==
    SumOver([p \in DOMAIN T |-> T[p] * Val(p.days_late)], DOMAIN T)

SumLateSquared(T) ==
    SumOver([p \in DOMAIN T |-> T[p] * Val(p.days_late) * Val(p.days_late)],
            DOMAIN T)

\* the variance of days-late over T, mean of squares minus square of the
\* mean, is below limit
VarianceBelow(T, limit) ==
    LET n == BagCardinality(T)
    IN  n * SumLateSquared(T) - SumLate(T) * SumLate(T) < limit * n * n

\* the policy table of the payment score, top to bottom
PolicyTable(on_time, consistent) ==
    IF on_time >= 5 \/ (on_time >= 4 /\ consistent) THEN 3
    ELSE IF on_time >= 4 THEN 2
    ELSE IF on_time >= 2 \/ consistent THEN 1
    ELSE 0

PaymentScoreCalled == ret.fn = "calculate_payment_score"
CommunicationScoreCalled == ret.fn = "calculate_communication_score"
ProactivityScoreCalled == ret.fn = "calculate_proactivity_score"
StatusCalled == ret.fn = "calculate_traffic_light_status"
UpdateCalled == ret.fn = "update_borrower_traffic_light"
Returned == ret.exc = "none"

-----------------------------------------------------------------------------
(* C1: whenever calculate_traffic_light_status returns, the status is      *)
(* GREEN exactly when the total is at least 6, YELLOW exactly when it is   *)
(* 4 or 5, and RED exactly when it is below 4.                             *)
C1_StatusByTotal ==
    (StatusCalled /\ Returned) =>
        /\ ret.status \in {"GREEN", "YELLOW", "RED"}
        /\ (ret.status = "GREEN") <=> (ret.val >= 6)
        /\ (ret.status = "YELLOW") <=> (4 <= ret.val /\ ret.val < 6)
        /\ (ret.status = "RED") <=> (ret.val < 4)

\* a total of exactly 6 was classified
C1_Witness ==
    StatusCalled /\ Returned /\ ret.val = 6 /\ ret.status = "GREEN"

(* C2: whenever calculate_traffic_light_status returns, the total is the   *)
(* sum of the three sub-scores, the payment score is in 0..3, the          *)
(* communication and proactivity scores are in 0..2, the total in 0..7.    *)
C2_TotalIsSum ==
    (StatusCalled /\ Returned) =>
        /\ ret.val = ret.breakdown.total
        /\ ret.breakdown.total = ret.breakdown.payment
                                 + ret.breakdown.communication
                                 + ret.breakdown.proactivity
        /\ ret.breakdown.payment \in 0..3
        /\ ret.breakdown.communication \in 0..2
        /\ ret.breakdown.proactivity \in 0..2
        /\ ret.breakdown.total \in 0..7

\* the greatest total, from the greatest sub-scores
C2_Witness ==
    /\ StatusCalled /\ Returned
    /\ ret.breakdown = [payment |-> 3, communication |-> 2,
                        proactivity |-> 2, total |-> 7]

(* C3: with fewer than 3 payment rows on file for the borrower,            *)
(* calculate_payment_score returns 1, whatever their days_late.            *)
C3_FewPaymentsNeutral ==
    (PaymentScoreCalled /\ BagCardinality(PaymentsOnFile(ret.b2c_id)) < 3) =>
        (Returned /\ ret.val = 1)

\* two rows on file, one late and one with no days_late
C3_Witness ==
    /\ PaymentScoreCalled
    /\ BagCardinality(PaymentsOnFile(ret.b2c_id)) = 2
    /\ \E p \in DOMAIN PaymentsOnFile(ret.b2c_id) : IsNone(p.days_late)
    /\ \E p \in DOMAIN PaymentsOnFile(ret.b2c_id) :
         ~IsNone(p.days_late) /\ Val(p.days_late) > 0
    /\ ret.val = 1

(* C4: with at least 3 payment rows on file, calculate_payment_score       *)
(* examines the up-to-6 rows with the latest due dates and gives the value *)
(* of the policy table for their on-time count and consistent-pattern flag.*)
C4_PolicyTable ==
    (PaymentScoreCalled /\ BagCardinality(PaymentsOnFile(ret.b2c_id)) >= 3) =>
        /\ IsMostRecent(ret.payments, PaymentsOnFile(ret.b2c_id),
                        LAMBDA p : p.due_date, 6)
        /\ Returned
        /\ ret.val = PolicyTable(OnTime(ret.payments), ret.pattern)

\* the same, of the calls that return
PolicyTableWhenReturned ==
    (PaymentScoreCalled /\ Returned
       /\ BagCardinality(PaymentsOnFile(ret.b2c_id)) >= 3) =>
        /\ IsMostRecent(ret.payments, PaymentsOnFile(ret.b2c_id),
                        LAMBDA p : p.due_date, 6)
        /\ ret.val = PolicyTable(OnTime(ret.payments), ret.pattern)

(* C5, as stated: whenever a payment score is computed from 3 or more      *)
(* rows, the consistent-pattern flag is true exactly when the variance of  *)
(* days-late over the examined rows is below 4.                            *)
C5_PatternIffLowVariance ==
    (PaymentScoreCalled /\ Returned /\ BagCardinality(ret.payments) >= 3) =>
        (ret.pattern <=> VarianceBelow(ret.payments, 4))

(* C5, amended: the flag is true exactly when at least 4 rows are examined *)
(* and the variance of their days-late is below 4; with exactly 3 examined *)
(* rows it is false.                                                       *)
C5_PatternFromFourRows ==
    (PaymentScoreCalled /\ Returned /\ BagCardinality(ret.payments) >= 3) =>
        (ret.pattern <=> /\ BagCardinality(ret.payments) >= 4
                         /\ VarianceBelow(ret.payments, 4))

\* four rows, each late by the same amount: a consistent pattern
C5_Witness ==
    /\ PaymentScoreCalled /\ Returned
    /\ BagCardinality(ret.payments) = 4
    /\ \A p \in DOMAIN ret.payments : Val(p.days_late) = 5
    /\ ret.pattern

(* C6: calculate_communication_score examines the up-to-5 most recent      *)
(* MFI-initiated rows of the borrower; with none it returns 1; with k of   *)
(* the n examined answered within 48 hours it returns 2 if k/n >= 0.8,     *)
(* 1 if 0.5 <= k/n < 0.8, 0 if k/n < 0.5; no response time: not answered.  *)
C6_CommunicationScore ==
    CommunicationScoreCalled =>
        LET n == BagCardinality(ret.comms)
            k == BagCardinality(
                     Rows(ret.comms,
                          LAMBDA c : /\ c.response_time_hours # None
                                      /\ Val(c.response_time_hours) <= 48))
        IN  /\ IsMostRecent(ret.comms, ContactsOnFile(ret.b2c_id),
                            LAMBDA c : c.communication_date, 5)
            /\ Returned
            /\ ret.val = IF n = 0 THEN 1
                         ELSE IF 5 * k >= 4 * n THEN 2
                         ELSE IF 2 * k >= n THEN 1
                         ELSE 0

\* six MFI-initiated rows on file, five examined, four of them answered
\* in exactly 48 hours and one never
C6_Witness ==
    /\ CommunicationScoreCalled
    /\ BagCardinality(ContactsOnFile(ret.b2c_id)) = 6
    /\ BagCardinality(ret.comms) = 5
    /\ \E c \in DOMAIN ret.comms : c.response_time_hours = None
    /\ \A c \in DOMAIN ret.comms : c.response_time_hours \in {None, Some(48)}
    /\ ret.val = 2

(* C7: calculate_proactivity_score counts the BORROWER-initiated rows      *)
(* flagged proactive in the trailing 90 days: 2 or more give 2, one gives  *)
(* 1; with none, 2 or more BORROWER-initiated rows give 1, else 0.  An     *)
(* MFI-initiated row never raises the score.                               *)
C7_BorrowerProactivity ==
    ProactivityScoreCalled =>
        LET mine == Rows(b2c_communication,
                          LAMBDA c : /\ c.b2c_id = ret.b2c_id
                                     /\ c.initiated_by = "BORROWER"
                                     /\ c.communication_date >= ret.at - 90)
            flagged == BagCardinality(Rows(mine, LAMBDA c : c.is_proactive))
        IN  ret.val = IF flagged >= 2 THEN 2
                      ELSE IF flagged = 1 THEN 1
                      ELSE IF BagCardinality(mine) >= 2 THEN 1
                      ELSE 0

(* C8, as stated: when update_borrower_traffic_light is called on a        *)
(* borrower right after a call that wrote the borrower's row, with no      *)
(* insert in between, the second call stores the score and status the      *)
(* first stored, and its note has no 'Changed from' prefix.                *)
C8_RecomputeIdempotent ==
    (UpdateCalled /\ ret.ok /\ ret.repeated) =>
        /\ b2c[ret.b2c_id].visibility_score = ret.old_score
        /\ b2c[ret.b2c_id].traffic_light_status = ret.old_status
        /\ b2c[ret.b2c_id].status_notes.changed_from = "none"

\* the rows of the borrower a call at time t finds in its trailing 90 days
InTrailingWindow(b, t) ==
    Rows(b2c_communication,
         LAMBDA c : c.b2c_id = b /\ c.communication_date >= t - 90)

(* C8, amended: the same, provided the two calls see the same              *)
(* communications in their trailing 90 days (none has aged out between     *)
(* them) and their limited queries return the same rows.                   *)
C8_RecomputeIdempotentSameWindow ==
    (/\ UpdateCalled /\ ret.ok /\ ret.repeated
     /\ InTrailingWindow(ret.b2c_id, ret.prev_at)
          = InTrailingWindow(ret.b2c_id, ret.at)
     /\ ret.prev_payments = ret.payments
     /\ ret.prev_comms = ret.comms) =>
        /\ b2c[ret.b2c_id].visibility_score = ret.old_score
        /\ b2c[ret.b2c_id].traffic_light_status = ret.old_status
        /\ b2c[ret.b2c_id].status_notes.changed_from = "none"

\* a second call in a row, 91 days after the first, on a borrower with
\* payments on file whose status the first call had changed to RED
C8_Witness ==
    /\ UpdateCalled /\ ret.ok /\ ret.repeated
    /\ ret.prev_at < ret.at
    /\ InTrailingWindow(ret.b2c_id, ret.prev_at)
         = InTrailingWindow(ret.b2c_id, ret.at)
    /\ BagCardinality(ret.payments) >= 3
    /\ ret.old_status = "RED"
    /\ b2c[ret.b2c_id].traffic_light_status = "RED"
    /\ b2c[ret.b2c_id].visibility_score = ret.old_score
    /\ b2c[ret.b2c_id].status_notes.changed_from = "none"

(* C9: a call of update_borrower_traffic_light that returns leaves, for an *)
(* existing borrower, the status and total calculate_traffic_light_status  *)
(* gives for the current rows in traffic_light_status and                  *)
(* visibility_score, and a note that names the previous status exactly     *)
(* when that differs from the new one; for an id with no b2c row it        *)
(* returns (False, None, None) and writes nothing.                         *)
C9_UpdateStoresStatus ==
    [][(/\ ret'.fn = "update_borrower_traffic_light"
        /\ ret'.exc = "none"
        /\ now' = now) =>
         LET b == ret'.b2c_id
             r == calculate_traffic_light_status(b, ret'.payments, ret'.comms)
         IN  /\ ret'.payments \in last_payments(b)
             /\ ret'.comms \in last_contacts(b)
             /\ IF b \in DOMAIN b2c
                THEN /\ b2c'[b].traffic_light_status = r.status
                     /\ b2c'[b].visibility_score = r.score
                     /\ (b2c'[b].status_notes.changed_from # "none")
                          <=> (b2c[b].traffic_light_status # r.status)
                     /\ (b2c[b].traffic_light_status # r.status) =>
                          /\ b2c'[b].status_notes.changed_from
                               = b2c[b].traffic_light_status
                          /\ b2c'[b].status_notes.changed_to = r.status
                     /\ \A other \in DOMAIN b2c \ {b} : b2c'[other] = b2c[other]
                     /\ ret'.ok /\ ret'.status = r.status /\ ret'.val = r.score
                ELSE /\ ~ret'.ok /\ ret'.status = "none"
                     /\ b2c' = b2c
             /\ UNCHANGED <<b2c_payment, b2c_communication>>]_vars

\* a call changed a stored YELLOW to GREEN and said so in the note
C9_Witness ==
    /\ UpdateCalled /\ ret.ok
    /\ ret.old_status = "YELLOW"
    /\ b2c[ret.b2c_id].traffic_light_status = "GREEN"
    /\ b2c[ret.b2c_id].visibility_score >= 6
    /\ b2c[ret.b2c_id].status_notes.changed_from = "YELLOW"
    /\ b2c[ret.b2c_id].status_notes.changed_to = "GREEN"

(* C10: calculate_traffic_light_status returns a status and a score for    *)
(* every borrower id and every content of the two tables, rows with no     *)
(* days_late or no response_time_hours included; it never raises.          *)
C10_NeverRaises ==
    StatusCalled =>
        /\ Returned
        /\ ret.status \in {"GREEN", "YELLOW", "RED"}
        /\ ret.val \in 0..7

(***************************************************************************)
(* The payment ledger.                                                     *)
(***************************************************************************)

(* C11: in every state reached by inserting payments, editing payments and *)
(* report_payment, every payment row with a paid date has                  *)
(* days_late = paid_date - due_date.                                       *)
C11_DaysLateDerived ==
    \A p \in DOMAIN b2c_payment :
        ~IsNone(p.paid_date) =>
            p.days_late = Some(Val(p.paid_date) - p.due_date)

\* the last request was report_payment and its form was accepted: the
\* handler went on to the redirect to finances, or an exception ended it
ReportAccepted ==
    /\ response.handler = "b2c.report_payment"
    /\ response.redirect = Some("finances") \/ response.exc # "none"

\* the last request was report_payment and it ran to its redirect
ReportCompleted ==
    /\ response.handler = "b2c.report_payment"
    /\ response.redirect = Some("finances")

\* between two states, exactly one payment row of borrower me changed as
\* report_payment is meant to change it, and no other row changed
OneRowReported(me) ==
    LET unpaid == {p \in DOMAIN b2c_payment :
                     p.b2c_id = me /\ IsNone(p.paid_date)}
    IN  IF unpaid # {}
        THEN \E p \in unpaid : \E q \in DOMAIN b2c_payment' :
                /\ \A other \in unpaid : p.due_date <= other.due_date
                /\ ~IsNone(q.paid_date)
                /\ q.b2c_id = me
                /\ q.due_date = p.due_date
                /\ q.amount = p.amount
                /\ b2c_payment' = (b2c_payment (-) SetToBag({p}))
                                      (+) SetToBag({q})
        ELSE \E q \in DOMAIN b2c_payment' :
                /\ q.b2c_id = me
                /\ ~IsNone(q.paid_date)
                /\ q.due_date = Val(q.paid_date)
                /\ q.days_late = Some(0)
                /\ b2c_payment' = b2c_payment (+) SetToBag({q})

(* C20: an accepted report_payment changes exactly one payment row of the  *)
(* logged-in borrower: the unpaid row with the earliest due date gets the  *)
(* reported paid date and no row is created, or, with no unpaid row, one   *)
(* row is inserted with due_date = paid_date and days_late 0; the rows of  *)
(* other borrowers are untouched.                                          *)
C20_ReportChangesOneRow ==
    [][ReportAccepted' => OneRowReported(Val(session.b2c_id))]_vars

\* the same for the requests that ran to their redirect
ReportCompletedChangesOneRow ==
    [][ReportCompleted' => OneRowReported(Val(session.b2c_id))]_vars

(***************************************************************************)
(* The logins.                                                             *)
(***************************************************************************)

\* password p verifies against the stored hash of the account named u
Verifies(rows, u, p) ==
    \E i \in DOMAIN rows :
        /\ rows[i].username = u
        /\ ~IsNone(rows[i].password_hash)
        /\ Val(rows[i].password_hash).bcrypt
        /\ Val(rows[i].password_hash).of = p

\* the comparison of p with what is stored for the account named u raises:
\* the stored string is no bcrypt hash
ComparisonRaises(rows, u, p) ==
    \E i \in DOMAIN rows :
        /\ rows[i].username = u
        /\ ~IsNone(rows[i].password_hash)
        /\ ~Val(rows[i].password_hash).bcrypt

\* a login step on the accounts in rows, with the session key it sets
LoginRule(rows, key, u, p, message) ==
    /\ response'.exc = "none"
    /\ session' # session =>
          /\ Verifies(rows, u, p)
          /\ \E i \in DOMAIN rows :
                rows[i].username = u /\ session'[key] = Some(i)
    /\ (IsNone(session[key]) /\ u # "" /\ p # ""
            /\ ComparisonRaises(rows, u, p)) =>
          /\ session' = session
          /\ response'.flash = Some(message)
    /\ ~Verifies(rows, u, p) => session' = session

AdministratorMessage == "Login error. Please contact administrator."

(* C15, as stated: in each of the four login handlers the session gains an *)
(* account id only when the password verifies against the stored hash of   *)
(* the submitted username; when the comparison raises, no exception        *)
(* escapes, the session is unchanged and the message is the 'contact       *)
(* administrator' one; an unknown username or a wrong password leaves the  *)
(* session unchanged.                                                      *)
C15_LoginContactAdministrator ==
    [][\A u \in LoginNames, p \in LoginPasswords :
          /\ mfi_login(u, p) =>
                LoginRule(db.mfi, "mfi_id", u, p, AdministratorMessage)
          /\ b2c_login(u, p) =>
                LoginRule(b2c, "b2c_id", u, p, AdministratorMessage)
          /\ responsible_login(u, p) =>
                LoginRule(db.responsible, "responsible_id", u, p,
                          AdministratorMessage)
          /\ participant_login(u, p) =>
                LoginRule(db.participant, "participant_id", u, p,
                          AdministratorMessage)]_vars

(* C15, amended: the same, the message being 'Login error. Please contact  *)
(* administrator.' in mfi.login, responsible.login and participant.login   *)
(* and 'Login error. Please contact your MFI.' in b2c.login.               *)
C15_LoginGenericMessage ==
    [][\A u \in LoginNames, p \in LoginPasswords :
          /\ mfi_login(u, p) =>
                LoginRule(db.mfi, "mfi_id", u, p, AdministratorMessage)
          /\ b2c_login(u, p) =>
                LoginRule(b2c, "b2c_id", u, p,
                          "Login error. Please contact your MFI.")
          /\ responsible_login(u, p) =>
                LoginRule(db.responsible, "responsible_id", u, p,
                          AdministratorMessage)
          /\ participant_login(u, p) =>
                LoginRule(db.participant, "participant_id", u, p,
                          AdministratorMessage)]_vars

\* a login whose comparison raised: the message is shown and nobody is
\* logged in
C15_Witness ==
    /\ response.handler = "participant.login"
    /\ response.flash = Some(AdministratorMessage)
    /\ response.exc = "none"
    /\ session = NoSession

(***************************************************************************)
(* The accounts.                                                           *)
(***************************************************************************)

\* how many b2c accounts institution m owns
OwnedBorrowers(m) == Cardinality({i \in DOMAIN b2c : b2c[i].mfi_id = m})

\* the institution whose id the session carries is at its limit
SessionAtLimit ==
    /\ ~IsNone(session.mfi_id)
    /\ Val(session.mfi_id) \in DOMAIN db.mfi
    /\ OwnedBorrowers(Val(session.mfi_id))
          >= db.mfi[Val(session.mfi_id)].b2c_accounts

(* C18: with the b2c_accounts limits fixed, after any sequence of requests *)
(* no institution owns more b2c accounts than its limit; a create_b2c      *)
(* request made when the count is at or above the limit is refused with a  *)
(* redirect to the dashboard and creates nothing; the dashboard's          *)
(* can_create is true exactly when the count is below the limit.           *)
C18_B2cLimit ==
    /\ [](\A m \in DOMAIN db.mfi : OwnedBorrowers(m) <= db.mfi[m].b2c_accounts)
    /\ [][(response'.handler = "mfi.create_b2c" /\ SessionAtLimit) =>
             /\ b2c' = b2c
             /\ response'.redirect = Some("dashboard")
             /\ response'.session_flash
                   = Some("Maximum B2C account limit reached")]_vars
    /\ []((response.handler = "mfi.dashboard" /\ response.body
              /\ IsNone(response.redirect)) =>
            (response.can_create <=>
               OwnedBorrowers(Val(session.mfi_id))
                   < db.mfi[Val(session.mfi_id)].b2c_accounts))

\* institution 1 has created its second account, asked for a third and was
\* refused
C18_Witness ==
    /\ response.handler = "mfi.create_b2c"
    /\ response.session_flash = Some("Maximum B2C account limit reached")
    /\ session.mfi_id = Some(1)
    /\ OwnedBorrowers(1) = 2
    /\ 3 \in DOMAIN b2c

\* no stored record changes in the step
RecordsUnchanged ==
    /\ b2c' = b2c
    /\ b2c_payment' = b2c_payment
    /\ b2c_communication' = b2c_communication
    /\ db' = db

\* the answer of the step is a redirect to the dashboard with a message
DeniedToDashboard ==
    /\ response'.redirect = Some("dashboard")
    /\ ~IsNone(response'.session_flash)
    /\ response'.exc = "none"

\* no b2c account with this id, or one of another institution than the one
\* of the session
NotOwnBorrower(id) ==
    id \notin DOMAIN b2c \/ Some(b2c[id].mfi_id) # session.mfi_id

NotOwnParticipant(id) ==
    \/ id \notin DOMAIN db.participant
    \/ Some(db.participant[id].responsible_id) # session.responsible_id

(* C14: a request of a logged-in institution to mfi.b2c, mfi.edit_b2c,     *)
(* mfi.delete_b2c, responsible.participant, responsible.edit_participant   *)
(* or responsible.delete_participant that names an account which does not  *)
(* exist or belongs to another institution is answered with a redirect to  *)
(* the dashboard and a message, and changes no stored record.              *)
C14_ForeignAccountDenied ==
    [][/\ (response'.handler = "mfi.b2c" /\ ~IsNone(session.mfi_id)) =>
             \A id \in AccountArgs : \A form \in AmountForms :
                (NotOwnBorrower(id) /\ mfi_b2c(Some(id), form)) =>
                   DeniedToDashboard /\ RecordsUnchanged
       /\ (response'.handler = "mfi.edit_b2c" /\ ~IsNone(session.mfi_id)) =>
             \A id \in AccountArgs : \A form \in ProfileForms("ana") :
                (NotOwnBorrower(id) /\ edit_b2c(Some(id), form)) =>
                   DeniedToDashboard /\ RecordsUnchanged
       /\ (response'.handler = "mfi.delete_b2c" /\ ~IsNone(session.mfi_id)) =>
             \A id \in AccountArgs :
                (NotOwnBorrower(id) /\ delete_b2c(Some(id))) =>
                   DeniedToDashboard /\ RecordsUnchanged
       /\ (response'.handler = "responsible.participant" /\ ~IsNone(session.responsible_id)) =>
             \A id \in AccountArgs : \A form \in AmountForms :
                (NotOwnParticipant(id) /\ responsible_participant(Some(id), form)) =>
                   DeniedToDashboard /\ RecordsUnchanged
       /\ (response'.handler = "responsible.edit_participant" /\ ~IsNone(session.responsible_id)) =>
             \A id \in AccountArgs : \A form \in ProfileForms("pia") :
                (NotOwnParticipant(id) /\ edit_participant(Some(id), form)) =>
                   DeniedToDashboard /\ RecordsUnchanged
       /\ (response'.handler = "responsible.delete_participant" /\ ~IsNone(session.responsible_id)) =>
             \A id \in AccountArgs :
                (NotOwnParticipant(id) /\ delete_participant(Some(id))) =>
                   DeniedToDashboard /\ RecordsUnchanged]_vars

\* institution 1 asked to delete an account it does not own while ben's
\* account of institution 2 is on file, and was turned away
C14_Witness ==
    /\ response.handler = "mfi.delete_b2c"
    /\ response.session_flash = Some("Unauthorized or account not found")
    /\ response.redirect = Some("dashboard")
    /\ session.mfi_id = Some(1)
    /\ 2 \in DOMAIN b2c /\ b2c[2].mfi_id = 2
    /\ 1 \notin DOMAIN b2c

\* every child record references an account that is on file: payments,
\* communications, daily signals and info-flyer recipients a b2c account,
\* execution signals and instruction recipients a participant
ParentsExist ==
    /\ \A r \in DOMAIN b2c_payment : r.b2c_id \in DOMAIN b2c
    /\ \A r \in DOMAIN b2c_communication : r.b2c_id \in DOMAIN b2c
    /\ \A r \in db.daily_signal : r.b2c_id \in DOMAIN b2c
    /\ \A r \in db.info_flyer_recipient : r.b2c_id \in DOMAIN b2c
    /\ \A r \in db.execution_signal : r.participant_id \in DOMAIN db.participant
    /\ \A r \in db.instruction_recipient :
          r.participant_id \in DOMAIN db.participant

\* a record names the context of its account, and the message a recipient
\* row belongs to names the institution of the recipient
SameInstitution ==
    /\ \A r \in db.info_flyer_recipient :
          b2c[r.b2c_id].mfi_id = db.mfi_info_flyer[r.info_flyer_id].mfi_id
    /\ \A r \in db.instruction_recipient :
          /\ db.participant[r.participant_id].responsible_id
                = db.instruction[r.instruction_id].responsible_id
          /\ db.participant[r.participant_id].context_id = r.context_id
    /\ \A r \in db.execution_signal :
          db.participant[r.participant_id].context_id = r.context_id

(* C12: after any sequence of requests (create account, report payment,    *)
(* send message or instruction, report signal, delete account) every       *)
(* payment, signal, communication and recipient record references an       *)
(* account that is on file and belongs to the same institution; once       *)
(* delete_b2c or delete_participant has removed an account, no record of a *)
(* child table references it.                                              *)
C12_ReferentialIntegrity == ParentsExist /\ SameInstitution

(***************************************************************************)
(* The signals.                                                            *)
(***************************************************************************)

\* no signal on file is changed by the step: a signal that is still there
\* is as it was
SignalsNotModified ==
    /\ \A s \in db.execution_signal : \A t \in db'.execution_signal :
          t.id = s.id => t = s
    /\ \A s \in db.daily_signal : \A t \in db'.daily_signal :
          t.id = s.id => t = s

(* C13, as stated: no request modifies a signal, and a signal is removed   *)
(* only by a request made in the session of the participant or borrower    *)
(* who reported it, never by a request of the institution or of another    *)
(* participant.                                                            *)
C13_SignalsOwnerOnly ==
    [][/\ SignalsNotModified
       /\ \A s \in db.execution_signal :
             s \notin db'.execution_signal =>
                session.participant_id = Some(s.participant_id)
       /\ \A s \in db.daily_signal :
             s \notin db'.daily_signal =>
                session.b2c_id = Some(s.b2c_id)]_vars

(* C13, amended: no request modifies a signal and none deletes a single    *)
(* signal; a signal is removed only together with its account, by          *)
(* delete_participant or delete_b2c requested in a session that carries    *)
(* the id of the institution that owns the account.                        *)
C13_SignalsGoWithAccount ==
    [][/\ SignalsNotModified
       /\ \A s \in db.execution_signal :
             s \notin db'.execution_signal =>
                /\ response'.handler = "responsible.delete_participant"
                /\ s.participant_id \in DOMAIN db.participant
                /\ s.participant_id \notin DOMAIN db'.participant
                /\ session.responsible_id
                      = Some(db.participant[s.participant_id].responsible_id)
       /\ \A s \in db.daily_signal :
             s \notin db'.daily_signal =>
                /\ response'.handler = "mfi.delete_b2c"
                /\ s.b2c_id \notin DOMAIN b2c'
                /\ session.mfi_id = Some(b2c[s.b2c_id].mfi_id)]_vars

\* pia reported a signal and institution 1 deleted her account: her signal
\* is gone, pol's is still there
C13_Witness ==
    /\ response.handler = "responsible.delete_participant"
    /\ response.session_flash
          = Some("account and all associated data deleted successfully")
    /\ 1 \notin DOMAIN db.participant
    /\ db.sequence.signal = 2
    /\ \A s \in db.execution_signal : s.participant_id = 2
    /\ db.execution_signal # {}

(***************************************************************************)
(* The guards.                                                             *)
(***************************************************************************)

\* the handlers behind mfi_requires_login and responsible_requires_login
InstitutionHandlers ==
    {"mfi.dashboard", "mfi.create_b2c", "mfi.b2c", "mfi.edit_b2c",
     "mfi.delete_b2c", "mfi.compose_info_flyer",
     "responsible.dashboard", "responsible.create_participant",
     "responsible.participant", "responsible.edit_participant",
     "responsible.delete_participant", "responsible.compose_instruction"}

(* C19: when no institution has logged in, whatever borrowers and          *)
(* participants have done, no handler behind mfi_requires_login or         *)
(* responsible_requires_login runs its body.                               *)
C19_InstitutionGuard ==
    ~(response.handler \in InstitutionHandlers /\ response.body)

(***************************************************************************)
(* The public pages.                                                       *)
(***************************************************************************)

PublicHandlers ==
    {"b2c.view_flyer", "participant.view_flyer", "default.view_flyer",
     "fmi.vendor_side"}

\* the step counted one view of flyer f and changed nothing else
OneViewCounted(f) ==
    /\ db' = [db EXCEPT
                !.flyer[f].view_count = @ + 1,
                !.flyer_view = @ (+) SetToBag({[flyer_id |-> f]})]
    /\ b2c' = b2c
    /\ b2c_payment' = b2c_payment
    /\ b2c_communication' = b2c_communication

C17_ScoreOfDocstring ==
    (PaymentScoreCalled /\ Returned /\ BagCardinality(ret.payments) >= 3) =>
        /\ (OnTime(ret.payments) >= 5 \/ ret.pattern) => ret.val = 3
        /\ (OnTime(ret.payments) <= 4 /\ ~ret.pattern) => ret.val = 0

\* what the body of calculate_payment_score computes from 3 or more
\* payment records: 3 exactly when 5 or 6 of the examined payments are
\* on-time, or 4 are and the payments show a consistent pattern; 0 exactly
\* when fewer than 2 are on-time and there is no consistent pattern
ScoreExtremesOfBody ==
    (PaymentScoreCalled /\ Returned /\ BagCardinality(ret.payments) >= 3) =>
        /\ ret.val \in 0..3
        /\ ret.val = 3 <=> \/ OnTime(ret.payments) >= 5
                           \/ OnTime(ret.payments) >= 4 /\ ret.pattern
        /\ ret.val = 0 <=> (OnTime(ret.payments) < 2 /\ ~ret.pattern)

(***************************************************************************)
(* The order of the steps of report_payment.                               *)
(***************************************************************************)

\* between two states: a payment row of borrower me was written, exactly
\* one communication of me, initiated by the borrower and flagged
\* proactive, was appended, and the stored status and score of me are
\* those of calculate_traffic_light_status on the records after both writes
ReportedThenRecomputed(me) ==
    /\ b2c_payment' # b2c_payment
    /\ \E c \in DOMAIN b2c_communication' :
          /\ c.b2c_id = me
          /\ c.initiated_by = "BORROWER"
          /\ c.is_proactive = TRUE
          /\ b2c_communication' = b2c_communication (+) SetToBag({c})
    /\ \E payments \in last_payments_of(b2c_payment', me) :
       \E comms \in last_contacts(me)' :
          LET r == calculate_traffic_light_status(me, payments, comms)'
          IN  /\ r.exc = "none"
              /\ b2c'[me].traffic_light_status = r.status
              /\ b2c'[me].visibility_score = r.score

(* C21: when an accepted report_payment finishes, the payment is written,  *)
(* exactly one BORROWER-initiated communication flagged proactive is       *)
(* appended, and the borrower's stored traffic_light_status and            *)
(* visibility_score are those of calculate_traffic_light_status on the     *)
(* records including the payment and the communication just written.       *)
C21_ReportThenStatus ==
    [][ReportAccepted' => ReportedThenRecomputed(Val(session.b2c_id))]_vars

\* the same for the requests that ran to their redirect
ReportCompletedThenStatus ==
    [][ReportCompleted' => ReportedThenRecomputed(Val(session.b2c_id))]_vars

(***************************************************************************)
(* The flyer editors.                                                      *)
(***************************************************************************)

BorrowerEditors == {"b2c.save", "b2c.delete"}
UserEditors == {"default.save", "default.delete"}

\* the account the session of the request is logged in with, as the
\* handler reads it, and the owner of flyer row f as it reads it
AccountOf(handler) ==
    IF handler \in BorrowerEditors THEN session.b2c_id ELSE session.user_id

OwnerFor(handler, f) ==
    IF handler \in BorrowerEditors THEN f.b2c_id ELSE f.user_id

\* the step changed the title or the content of flyer i, or deleted it
FlyerTouched(i) ==
    \/ i \notin DOMAIN db'.flyer
    \/ db'.flyer[i].title # db.flyer[i].title
    \/ db'.flyer[i].thecontent # db.flyer[i].thecontent

\* the step left every flyer as it was and added none
FlyersUnchanged == db'.flyer = db.flyer

(* C22: in b2c.save, b2c.delete, default.save and default.delete a flyer's *)
(* title or content is changed, or the flyer is deleted, only by a request *)
(* whose logged-in account id equals the flyer's owner id; a request that  *)
(* names a flyer that is missing or owned by someone else leaves all       *)
(* flyers unchanged; and no request changes a flyer's owner.               *)
C22_FlyerOwnerOnly ==
    [][/\ response'.handler \in BorrowerEditors \cup UserEditors =>
            \A i \in DOMAIN db.flyer :
               /\ FlyerTouched(i) =>
                     /\ ~IsNone(AccountOf(response'.handler))
                     /\ OwnerFor(response'.handler, db.flyer[i])
                           = AccountOf(response'.handler)
               /\ i \in DOMAIN db'.flyer =>
                     /\ db'.flyer[i].b2c_id = db.flyer[i].b2c_id
                     /\ db'.flyer[i].user_id = db.flyer[i].user_id
       /\ \A flyer_id \in 1..3 :
             /\ (\/ flyer_id \notin DOMAIN db.flyer
                 \/ db.flyer[flyer_id].b2c_id # session.b2c_id) =>
                   /\ (\E form \in EditorForms :
                          b2c_save(flyer_id, form, MaxFlyerId))
                        => FlyersUnchanged
                   /\ b2c_delete(flyer_id) => FlyersUnchanged
             /\ (\/ flyer_id \notin DOMAIN db.flyer
                 \/ db.flyer[flyer_id].user_id # session.user_id) =>
                   /\ (\E form \in EditorForms :
                          default_save(flyer_id, form, MaxFlyerId))
                        => FlyersUnchanged
                   /\ default_delete(flyer_id) => FlyersUnchanged]_vars

\* ana saved a new title and content to her flyer; ben's flyer is as it was
C22_Witness ==
    /\ response.handler = "b2c.save"
    /\ response.session_flash = Some("Flyer updated successfully")
    /\ session.b2c_id = Some(1)
    /\ db.flyer[1].b2c_id = Some(1)
    /\ db.flyer[1].title = "new"
    /\ 2 \in DOMAIN db.flyer
    /\ db.flyer[2].title = "old"

(***************************************************************************)
(* The guard of the institution portal.                                    *)
(***************************************************************************)

\* the handlers of mfi.py other than login and logout
MfiHandlers ==
    {"mfi.dashboard", "mfi.create_b2c", "mfi.compose_info_flyer",
     "mfi.sent_info_flyers", "mfi.info_flyer_details", "mfi.b2c",
     "mfi.signals_overview", "mfi.edit_b2c", "mfi.delete_b2c", "mfi.help"}

\* the request was redirected to login before the function behind the
\* decorator ran, and nothing was written
RedirectedToLogin ==
    /\ ~response'.body
    /\ response'.redirect = Some("login")
    /\ RecordsUnchanged

(* C23: with no institution logged in (session.mfi_id unset), a request to *)
(* any handler of mfi.py other than login and logout is redirected to      *)
(* login before its body, and so any of its queries, runs.                 *)
C23_MfiGuarded ==
    [][(IsNone(session.mfi_id) /\ response'.handler \in MfiHandlers) =>
          RedirectedToLogin]_vars

\* the same of the handlers other than signals_overview
MfiGuardedButSignals ==
    [][(/\ IsNone(session.mfi_id)
        /\ response'.handler \in MfiHandlers \ {"mfi.signals_overview"}) =>
          RedirectedToLogin]_vars

(***************************************************************************)
(* Flyers that are not public.                                             *)
(***************************************************************************)

\* the request was answered 'not found': HTTP 404, or the error page
AnsweredNotFound ==
    \/ response'.exc = "HTTP 404"
    \/ ~IsNone(response'.error)

\* the step left the view count of flyer f and its flyer_view rows alone
NoViewCounted(f) ==
    /\ db'.flyer[f].view_count = db.flyer[f].view_count
    /\ db'.flyer_view = db.flyer_view

(* C24: a flyer whose is_public flag is false is never served to an        *)
(* unauthenticated request: each public view_flyer handler (b2c.py,        *)
(* participant.py, default.py) answers 'not found' for it and counts no    *)
(* view.                                                                   *)
C24_PrivateNotServed ==
    [][\A f \in DOMAIN db.flyer :
          (/\ ~db.flyer[f].is_public
           /\ \/ b2c_view_flyer(f, MaxViews)
              \/ participant_view_flyer(Some(f), MaxViews)
              \/ default_view_flyer(f, MaxViews)) =>
             (AnsweredNotFound /\ NoViewCounted(f))]_vars

\* the same of the handlers of participant.py and default.py
PrivateNotServedButB2c ==
    [][\A f \in DOMAIN db.flyer :
          (/\ ~db.flyer[f].is_public
           /\ \/ participant_view_flyer(Some(f), MaxViews)
              \/ default_view_flyer(f, MaxViews)) =>
             (AnsweredNotFound /\ NoViewCounted(f))]_vars

(***************************************************************************)
(* Sessions after logout and after the account is gone.                    *)
(***************************************************************************)

\* the handlers behind b2c_requires_login and mfi_requires_login
BorrowerHandlers ==
    {"b2c.dashboard", "b2c.my_status", "b2c.report_payment", "b2c.profile",
     "b2c.change_password", "b2c.finances", "b2c.timeline",
     "b2c.editor", "b2c.save", "b2c.delete"}

DecoratedHandlers ==
    BorrowerHandlers \cup {"mfi.dashboard", "mfi.delete_b2c"}

LoginHandlers == {"b2c.login", "mfi.login"}

\* the session refers to a borrower record that no longer exists
BorrowerGone ==
    /\ ~IsNone(session.b2c_id)
    /\ Val(session.b2c_id) \notin DOMAIN b2c

\* after a cleared session the decorated handlers redirect to login
\* without running, and the session stays cleared until a login
ClearedUntilLogin ==
    /\ response'.handler = "logout" => session' = NoSession
    /\ (session = NoSession /\ response'.handler \in DecoratedHandlers) =>
          RedirectedToLogin
    /\ (session = NoSession /\ session' # NoSession) =>
          response'.handler \in LoginHandlers

(* C25: after logout every handler behind a *_requires_login decorator     *)
(* redirects to login without running its body, until the next successful  *)
(* login; and a protected borrower handler whose session refers to a       *)
(* borrower record that no longer exists clears the session and redirects  *)
(* to login without writing anything.                                      *)
C25_SessionsEnd ==
    [][/\ ClearedUntilLogin
       /\ (BorrowerGone /\ response'.handler \in BorrowerHandlers) =>
             /\ session' = NoSession
             /\ response'.redirect = Some("login")
             /\ RecordsUnchanged]_vars

\* the part on logout alone
ClearedUntilLoginAlways == [][ClearedUntilLogin]_vars

\* the part on the borrower that is gone, of the handlers that load the
\* borrower record; the others write nothing either
GoneBorrowerWhereLoaded ==
    [][(BorrowerGone /\ response'.handler \in BorrowerHandlers) =>
          /\ RecordsUnchanged
          /\ response'.handler
                \in BorrowerHandlers \ {"b2c.editor", "b2c.delete"} =>
                (session' = NoSession /\ response'.redirect = Some("login"))
       ]_vars

-----------------------------------------------------------------------------
(* C26 *)

\* the record of the same recipient and instruction after the step
SameRecipient(r, r2) ==
    /\ r2.instruction_id = r.instruction_id
    /\ r2.participant_id = r.participant_id
    /\ r2.context_id = r.context_id

\* the step is a read_instruction request of r's recipient for r's instruction
ViewedByRecipient(r) ==
    /\ response'.handler = "participant.read_instruction"
    /\ session.participant_id = Some(r.participant_id)
    /\ session.context_id = Some(r.context_id)

\* one step of one recipient record
RecipientStep(r, r2) ==
    /\ r.is_read => r2.is_read /\ r2.read_on = r.read_on
    /\ ~r.is_read /\ r2.is_read =>
          ViewedByRecipient(r) /\ r2.read_on = Some(now)
    /\ (\E form \in ResponseForms :
           read_instruction(Some(r.instruction_id), form))
         /\ ViewedByRecipient(r) => r2.is_read
    /\ ~IsNone(r.response) =>
          r2.response = r.response /\ r2.responded_on = r.responded_on
    /\ IsNone(r.response) /\ ~IsNone(r2.response) =>
          /\ ViewedByRecipient(r)
          /\ db.instruction[r.instruction_id].response_template # "NONE"
          /\ r2.responded_on = Some(now)

\* every record with a stored response is marked read
RespondedIsRead ==
    \A r \in db.instruction_recipient : ~IsNone(r.response) => r.is_read

\* C26: over any sequence of read_instruction requests every
\* instruction-recipient record stays on file; is_read goes from false to
\* true at the recipient's first view and never reverts, read_on is set
\* then and not changed by later views; a response is stored only while the
\* instruction's response template is not NONE and no response is stored,
\* and is never overwritten; every record with a response is marked read.
C26_ReadOnceAnswerOnce ==
    /\ []RespondedIsRead
    /\ [][\A r \in db.instruction_recipient :
            \E r2 \in db'.instruction_recipient :
              SameRecipient(r, r2) /\ RecipientStep(r, r2)]_vars

\* pia read instruction 2 on day 0, accepted it, and has viewed it again a
\* day later; pia has read instruction 1, which asks no response
C26_Witness ==
    /\ now = 1
    /\ response.handler = "participant.read_instruction"
    /\ session.participant_id = Some(1)
    /\ \E r \in db.instruction_recipient :
         /\ r.instruction_id = 2 /\ r.participant_id = 1
         /\ r.is_read /\ r.read_on = Some(0)
         /\ r.response = Some("ACCEPT") /\ r.responded_on = Some(0)
    /\ \E r \in db.instruction_recipient :
         /\ r.instruction_id = 1 /\ r.participant_id = 1
         /\ r.is_read /\ IsNone(r.response)

=============================================================================
